---- MODULE Spec2Model ----
(***************************************************************************)
(* Model of the four-stage query pipeline of Project Samarth               *)
(* (src/backend/app.py, mirrored by src/main.py): query understanding,     *)
(* query planning, data execution with parameter casing correction,        *)
(* answer synthesis and provenance.                                        *)
(*                                                                         *)
(* Text is modelled as a sequence of one-character strings so that         *)
(* str.lower(), str.title() and the substring test `x in sql_lower` are    *)
(* computed character by character, as Python computes them.               *)
(***************************************************************************)
EXTENDS Integers, Sequences, FiniteSets, TLC

\* ------------------------------------------------------------------------
\* Bounds of the model
\* ------------------------------------------------------------------------
\* longest string parameter enumerated for the casing correction
MaxStrLen == 2
\* longest parameter list enumerated for the casing correction
MaxParams == 2
\* longest 'query_plans' list the LLM returns
MaxPlans == 2
\* most tables declared in data_sources
MaxTables == 2

\* ------------------------------------------------------------------------
\* Characters and Python string operations
\* ------------------------------------------------------------------------
LowerAlpha ==
  <<"a","b","c","d","e","f","g","h","i","j","k","l","m","n","o","p","q","r","s","t","u","v","w","x","y","z">>
UpperAlpha ==
  <<"A","B","C","D","E","F","G","H","I","J","K","L","M","N","O","P","Q","R","S","T","U","V","W","X","Y","Z">>

LowerSet == {LowerAlpha[i] : i \in 1..Len(LowerAlpha)}
UpperSet == {UpperAlpha[i] : i \in 1..Len(UpperAlpha)}
IsLower(c) == c \in LowerSet
IsUpper(c) == c \in UpperSet
\* str.isupper()/islower() of one character: the character has a case.
IsCased(c) == IsLower(c) \/ IsUpper(c)

AlphaIndex(alpha, c) == CHOOSE i \in 1..Len(alpha) : alpha[i] = c
LowerOf == [c \in UpperSet |-> LowerAlpha[AlphaIndex(UpperAlpha, c)]]
UpperOf == [c \in LowerSet |-> UpperAlpha[AlphaIndex(LowerAlpha, c)]]
ToLower(c) == IF IsUpper(c) THEN LowerOf[c] ELSE c
ToUpper(c) == IF IsLower(c) THEN UpperOf[c] ELSE c

\* str.lower()
StrLower(s) == [i \in 1..Len(s) |-> ToLower(s[i])]

\* str.title(): a character that follows a cased character is lower-cased,
\* any other character is upper-cased.
RECURSIVE TitleFrom(_, _, _)
TitleFrom(s, i, previousIsCased) ==
  IF i > Len(s) THEN <<>>
  ELSE <<(IF previousIsCased THEN ToLower(s[i]) ELSE ToUpper(s[i]))>>
         \o TitleFrom(s, i + 1, IsCased(s[i]))
StrTitle(s) == TitleFrom(s, 1, FALSE)

\* the Python test `needle in hay` on strings
Contains(hay, needle) ==
  \E i \in 0..(Len(hay) - Len(needle)) :
     \A j \in 1..Len(needle) : hay[i + j] = needle[j]

\* ------------------------------------------------------------------------
\* Values: a query parameter is a JSON scalar.  kind is "str" for a Python
\* str and "int" for a number; val is its text.
\* ------------------------------------------------------------------------
StrVal(s) == [kind |-> "str", val |-> s]
IntVal(s) == [kind |-> "int", val |-> s]
IsInstanceStr(p) == p.kind = "str"

\* ------------------------------------------------------------------------
\* DataExecutor._correct_parameters
\* ------------------------------------------------------------------------
state_indicators == <<
  <<"s","t","a","t","e"," ","="," ","?">>,
  <<"s","t","a","t","e","=","?">>,
  <<"s","t","a","t","e"," ","i","n"," ","(","?">>,
  <<"s","t","a","t","e","_","n","a","m","e"," ","="," ","?">>,
  <<"d","i","s","t","r","i","c","t"," ","="," ","?">>,
  <<"d","i","s","t","r","i","c","t","=","?">>,
  <<"d","i","s","t","r","i","c","t"," ","i","n"," ","(","?">>,
  <<"d","i","s","t","r","i","c","t","_","n","a","m","e"," ","="," ","?">>
>>
crop_indicators == <<
  <<"c","r","o","p"," ","="," ","?">>,
  <<"c","r","o","p","=","?">>,
  <<"c","r","o","p"," ","i","n"," ","(","?">>,
  <<"c","r","o","p","_","n","a","m","e"," ","="," ","?">>
>>

AnyIn(indicators, sql_lower) ==
  \E k \in 1..Len(indicators) : Contains(sql_lower, indicators[k])

\* variant of CorrectOne without the crop indicators
CorrectOneStateOnly(sql_lower, p) ==
  IF ~IsInstanceStr(p) THEN p
  ELSE IF AnyIn(state_indicators, sql_lower) THEN StrVal(StrTitle(p.val))
  ELSE p

\* one iteration of `for p in params`
CorrectOne(sql_lower, p) ==
  IF ~IsInstanceStr(p) THEN p
  ELSE IF AnyIn(state_indicators, sql_lower) THEN StrVal(StrTitle(p.val))
  ELSE IF AnyIn(crop_indicators, sql_lower) THEN StrVal(StrTitle(p.val))
  ELSE p

RECURSIVE CorrectLoop(_, _, _, _)
CorrectLoop(sql_lower, params, i, corrected) ==
  IF i > Len(params) THEN corrected
  ELSE CorrectLoop(sql_lower, params, i + 1,
                   Append(corrected, CorrectOne(sql_lower, params[i])))

CorrectParameters(sql, params) ==
  IF params = <<>> THEN <<>>
  ELSE CorrectLoop(StrLower(sql), params, 1, <<>>)

\* ------------------------------------------------------------------------
\* SQL texts the planner's LLM may emit
\* ------------------------------------------------------------------------
\* SELECT * FROM crop_yield WHERE State = ?
SqlState ==
  <<"S","E","L","E","C","T"," ","*"," ","F","R","O","M"," ","c","r","o","p","_","y","i","e","l","d"," ","W","H","E","R","E"," ","S","t","a","t","e"," ","="," ","?">>
\* SELECT * FROM crop_yield WHERE CROP=?
SqlCropUpper ==
  <<"S","E","L","E","C","T"," ","*"," ","F","R","O","M"," ","c","r","o","p","_","y","i","e","l","d"," ","W","H","E","R","E"," ","C","R","O","P","=","?">>
\* SELECT * FROM crop_yield WHERE District IN (?)
SqlDistrictIn ==
  <<"S","E","L","E","C","T"," ","*"," ","F","R","O","M"," ","c","r","o","p","_","y","i","e","l","d"," ","W","H","E","R","E"," ","D","i","s","t","r","i","c","t"," ","I","N"," ","(","?",")">>
\* SELECT * FROM crop_yield WHERE Season = ?
SqlSeason ==
  <<"S","E","L","E","C","T"," ","*"," ","F","R","O","M"," ","c","r","o","p","_","y","i","e","l","d"," ","W","H","E","R","E"," ","S","e","a","s","o","n"," ","="," ","?">>
\* SELECT * FROM crop_yield WHERE Crop_Year = ?
SqlYear ==
  <<"S","E","L","E","C","T"," ","*"," ","F","R","O","M"," ","c","r","o","p","_","y","i","e","l","d"," ","W","H","E","R","E"," ","C","r","o","p","_","Y","e","a","r"," ","="," ","?">>
\* SELECT * FROM crop_yield WHERE Season = ? AND State = ?
SqlSeasonState ==
  <<"S","E","L","E","C","T"," ","*"," ","F","R","O","M"," ","c","r","o","p","_","y","i","e","l","d"," ","W","H","E","R","E"," ","S","e","a","s","o","n"," ","="," ","?"," ","A","N","D"," ","S","t","a","t","e"," ","="," ","?">>
\* SELECT * FROM crop_yield WHERE State = 'As'
SqlLiteral ==
  <<"S","E","L","E","C","T"," ","*"," ","F","R","O","M"," ","c","r","o","p","_","y","i","e","l","d"," ","W","H","E","R","E"," ","S","t","a","t","e"," ","="," ","'","A","s","'">>
\* SELECT * FROM crop_yield
SqlAll ==
  <<"S","E","L","E","C","T"," ","*"," ","F","R","O","M"," ","c","r","o","p","_","y","i","e","l","d">>
\* SELEC * FROM crop_yield
SqlBroken ==
  <<"S","E","L","E","C"," ","*"," ","F","R","O","M"," ","c","r","o","p","_","y","i","e","l","d">>
\* DELETE FROM crop_yield
SqlDelete ==
  <<"D","E","L","E","T","E"," ","F","R","O","M"," ","c","r","o","p","_","y","i","e","l","d">>
\* SELECT * FROM rainfall WHERE State = ?
SqlNoTable ==
  <<"S","E","L","E","C","T"," ","*"," ","F","R","O","M"," ","r","a","i","n","f","a","l","l"," ","W","H","E","R","E"," ","S","t","a","t","e"," ","="," ","?">>


\* ------------------------------------------------------------------------
\* The relational store (table crop_yield of DB_PATH) and SQLite's
\* evaluation of the SQL texts above
\* ------------------------------------------------------------------------
TxtAssam == <<"A","s","s","a","m">>
TxtOdisha == <<"O","d","i","s","h","a">>
TxtRice == <<"R","i","c","e">>
TxtWheat == <<"W","h","e","a","t">>
TxtKharif == <<"K","h","a","r","i","f">>
Txt2014 == <<"2","0","1","4">>
Txt2018 == <<"2","0","1","8">>
TxtAssamLower == <<"a","s","s","a","m">>
TxtGoaLower == <<"g","o","a">>
TxtKharifLower == <<"k","h","a","r","i","f">>

\* the seeder stores the columns under snake_case names
StoreRows == <<
  [state |-> TxtAssam,  crop |-> TxtRice,  season |-> TxtKharif, crop_year |-> Txt2014],
  [state |-> TxtAssam,  crop |-> TxtWheat, season |-> TxtKharif, crop_year |-> Txt2018],
  [state |-> TxtOdisha, crop |-> TxtRice,  season |-> TxtKharif, crop_year |-> Txt2018]
>>

\* Exceptions are named by their Python class; the name also stands for
\* str(e).
NoExc == "none"
APIConnectionError == "APIConnectionError"
JSONDecodeError == "JSONDecodeError"
KeyError == "KeyError"
DatabaseError == "DatabaseError"
OperationalError == "OperationalError"
ExcKinds == {APIConnectionError, JSONDecodeError, KeyError, DatabaseError, OperationalError}

RECURSIVE CountChar(_, _)
CountChar(s, c) ==
  IF s = <<>> THEN 0
  ELSE (IF Head(s) = c THEN 1 ELSE 0) + CountChar(Tail(s), c)

\* the columns a statement compares with its placeholders, in order;
\* SQLite matches column names without regard to case
WhereColumns(sql) ==
  CASE sql = SqlState -> <<"state">>
    [] sql = SqlCropUpper -> <<"crop">>
    [] sql = SqlSeason -> <<"season">>
    [] sql = SqlYear -> <<"crop_year">>
    [] sql = SqlSeasonState -> <<"season", "state">>
    [] OTHER -> <<>>

\* statements SQLite rejects: a syntax error, a missing table, a missing column
SqlRejected(sql) == sql \in {SqlBroken, SqlNoTable, SqlDistrictIn}

RowMatches(row, cols, params) ==
  \A i \in 1..Len(cols) : row[cols[i]] = params[i].val

\* variant of SqlWrites for a connection that takes every statement as a read
SqlWritesNone(sql) == FALSE

\* statements that change the table
SqlWrites(sql) == sql = SqlDelete

\* variant of RunQuery on a connection opened read-write in autocommit
\* mode: a DELETE empties the table before pandas fails to fetch rows
RunQueryWritable(store, sql, params) ==
  IF SqlRejected(sql) \/ CountChar(sql, "?") # Len(params)
  THEN [exc |-> DatabaseError, rows |-> <<>>, store |-> store]
  ELSE IF SqlWrites(sql)
  THEN [exc |-> DatabaseError, rows |-> <<>>, store |-> <<>>]
  ELSE [exc |-> NoExc,
        rows |-> SelectSeq(store,
                           LAMBDA r : sql # SqlLiteral
                                        /\ RowMatches(r, WhereColumns(sql), params)),
        store |-> store]

\* pd.read_sql_query(sql, conn, params=params) on the connection opened with
\* mode=ro: the rows, or the exception; store is the table's rows before and
\* after.  A write is refused ("attempt to write a readonly database").
RunQuery(store, sql, params) ==
  IF SqlRejected(sql) \/ CountChar(sql, "?") # Len(params)
  THEN [exc |-> DatabaseError, rows |-> <<>>, store |-> store]
  ELSE IF SqlWrites(sql)
  THEN [exc |-> DatabaseError, rows |-> <<>>, store |-> store]
  ELSE IF sql = SqlLiteral
  THEN [exc |-> NoExc, rows |-> SelectSeq(store, LAMBDA r : FALSE), store |-> store]
  ELSE [exc |-> NoExc,
        rows |-> SelectSeq(store,
                           LAMBDA r : RowMatches(r, WhereColumns(sql), params)),
        store |-> store]

\* DATA_SOURCES_MAP
ConfiguredTables == {"crop_yield"}
SourceUrl(table) ==
  IF table \in ConfiguredTables THEN "N/A (Uploaded from crop_yield.csv)" ELSE ""
SourceFile(table) ==
  IF table \in ConfiguredTables THEN "crop_yield.csv" ELSE ""

\* ------------------------------------------------------------------------
\* JSON objects returned by the LLM.  has is the set of keys present; a key
\* that is absent keeps a fixed filler value that is never read.
\* ------------------------------------------------------------------------
None == "None"
JsonGet(obj, key, default) == IF key \in obj.has THEN obj[key] ELSE default
\* obj[key]: KeyError when the key is absent
JsonHas(obj, key) == key \in obj.has

\* outcome of client.chat.completions.create followed by json.loads
LLMStatus == {"error", "badjson", "ok"}
LLMExc(reply) ==
  IF reply.status = "error" THEN APIConnectionError
  ELSE IF reply.status = "badjson" THEN JSONDecodeError
  ELSE NoExc

\* ------------------------------------------------------------------------
\* MetadataStore: tables_metadata is a dict in insertion order, modelled as
\* the sequence of its values
\* ------------------------------------------------------------------------
\* `x in s` for a list s
SeqContains(s, x) == \E i \in 1..Len(s) : s[i] = x

ColState == <<"s","t","a","t","e">>
ColCrop == <<"c","r","o","p">>
ColSeason == <<"s","e","a","s","o","n">>
ColCropYear == <<"c","r","o","p","_","y","e","a","r">>
ColStateTitle == <<"S","t","a","t","e">>
ColCropYearTitle == <<"C","r","o","p","_","Y","e","a","r">>
ColRainfall == <<"R","a","i","n","f","a","l","l">>
ColYear == <<"y","e","a","r">>

\* the tables a database file may hold
TableNames == <<"crop_yield", "rainfall", "soil", "prices">>
\* PRAGMA table_info(t): the column names of a table of the file.
\* crop_yield has the seeder's snake_case columns, in the order of the CSV.
DbColumns(t) ==
  CASE t = "crop_yield" -> <<ColCrop, ColCropYear, ColSeason, ColState>>
    [] t = "rainfall" -> <<ColStateTitle, ColCropYearTitle, ColRainfall>>
    [] OTHER -> <<ColYear>>
\* the rows of a table of the file; soil and prices are empty
DbRows(t) ==
  CASE t = "crop_yield" -> StoreRows
    [] t = "rainfall" ->
         <<[State |-> TxtAssam, Crop_Year |-> Txt2018, Rainfall |-> <<"9">>],
           [State |-> TxtOdisha, Crop_Year |-> Txt2014, Rainfall |-> <<"7">>]>>
    [] OTHER -> <<>>
\* the key under which a row holds a year column
RowKey(c) == IF c = ColCropYearTitle THEN "Crop_Year" ELSE "year"

\* an optional integer: None or int(v)
NullInt == [is_null |-> TRUE, val |-> 0]
IntOf(n) == [is_null |-> FALSE, val |-> n]

Digits == <<"0","1","2","3","4","5","6","7","8","9">>
DigitValue(c) == (CHOOSE k \in 1..Len(Digits) : Digits[k] = c) - 1
\* int() of a text of decimal digits
RECURSIVE ParseInt(_, _)
ParseInt(s, acc) ==
  IF s = <<>> THEN acc ELSE ParseInt(Tail(s), acc * Len(Digits) + DigitValue(Head(s)))

\* SELECT MIN(year_col), MAX(year_col): NULL on a table without rows
MinYear(rows, year_col) ==
  IF rows = <<>> THEN NullInt
  ELSE LET years == {ParseInt(rows[i][RowKey(year_col)], 0) : i \in 1..Len(rows)}
       IN  IntOf(CHOOSE y \in years : \A z \in years : y <= z)
MaxYear(rows, year_col) ==
  IF rows = <<>> THEN NullInt
  ELSE LET years == {ParseInt(rows[i][RowKey(year_col)], 0) : i \in 1..Len(rows)}
       IN  IntOf(CHOOSE y \in years : \A z \in years : y >= z)

metric_terms == <<
  <<"p","r","o","d","u","c","t","i","o","n">>,
  <<"r","a","i","n","f","a","l","l">>,
  <<"a","r","e","a">>,
  <<"y","i","e","l","d">>,
  <<"f","e","r","t","i","l","i","z","e","r">>,
  <<"p","e","s","t","i","c","i","d","e">>
>>

KeyColumns(columns) ==
  [state |-> SelectSeq(columns, LAMBDA c : Contains(StrLower(c), <<"s","t","a","t","e">>)),
   crop |-> SelectSeq(columns, LAMBDA c : StrLower(c) = <<"c","r","o","p">>),
   year |-> SelectSeq(columns, LAMBDA c : Contains(StrLower(c), <<"y","e","a","r">>)),
   metrics |-> SelectSeq(columns, LAMBDA c : AnyIn(metric_terms, StrLower(c)))]

TableMetadata(name, columns, sample_rows, date_range, description, key_columns) ==
  [name |-> name, columns |-> columns, sample_rows |-> sample_rows,
   date_range |-> date_range, description |-> description,
   key_columns |-> key_columns]

\* `SELECT * FROM t LIMIT 5`
SampleRows(rows) == SubSeq(rows, 1, IF Len(rows) < 5 THEN Len(rows) ELSE 5)

\* the body of the for loop for one declared table; present is the set of
\* tables of the file.  PRAGMA table_info answers an empty list for a table
\* that is missing, the SELECT that follows raises.
IntrospectTable(source, present) ==
  IF source.name \notin present
  THEN [exc |-> DatabaseError,
        val |-> TableMetadata(source.name, <<>>, <<>>,
                              [min |-> NullInt, max |-> NullInt], "",
                              KeyColumns(<<>>))]
  ELSE LET columns == DbColumns(source.name)
           rows == DbRows(source.name)
           year_col == IF SeqContains(columns, ColCropYearTitle)
                       THEN ColCropYearTitle ELSE ColYear
           date_range ==
             IF ~SeqContains(columns, year_col)
             THEN [min |-> NullInt, max |-> NullInt]
             ELSE [min |-> MinYear(rows, year_col), max |-> MaxYear(rows, year_col)]
       IN  [exc |-> NoExc,
            val |-> TableMetadata(source.name, columns, SampleRows(rows),
                                  date_range, source.description,
                                  KeyColumns(columns))]

\* `for table_name, source_info in self.data_sources.items()`: each table is
\* registered as soon as it is introspected
RECURSIVE MetadataLoop(_, _, _, _)
MetadataLoop(data_sources, present, i, tables_metadata) ==
  IF i > Len(data_sources) THEN [exc |-> NoExc, val |-> tables_metadata]
  ELSE LET one == IntrospectTable(data_sources[i], present)
       IN  IF one.exc # NoExc THEN [exc |-> one.exc, val |-> tables_metadata]
           ELSE MetadataLoop(data_sources, present, i + 1,
                             Append(tables_metadata, one.val))

\* MetadataStore.__init__ with _initialize_metadata: `except Exception` logs
\* the error and keeps self.tables_metadata as it is at that moment
InitializeMetadata(data_sources, present, connectOk) ==
  LET body == IF ~connectOk THEN [exc |-> OperationalError, val |-> <<>>]
              ELSE MetadataLoop(data_sources, present, 1, <<>>)
  IN  [raised |-> NoExc, val |-> body.val, error |-> body.exc]

\* DATA_SOURCES_MAP and the seeded database file
DataSource(name) == [name |-> name, description |-> "statistics of " \o name]
DeployedSources == <<DataSource("crop_yield")>>
SeededTables == {"crop_yield"}

\* get_relevant_tables: list(self.tables_metadata.keys())
RelevantTables(tables_metadata) ==
  [i \in 1..Len(tables_metadata) |-> tables_metadata[i].name]

\* _get_schema_context: one line per registered table, built before the
\* try block of parse_query
SchemaContext(tables_metadata) ==
  [exc |-> NoExc,
   text |-> [i \in 1..Len(tables_metadata) |->
               [name |-> tables_metadata[i].name,
                description |-> tables_metadata[i].description,
                years |-> tables_metadata[i].date_range]]]

\* `table_name in self.tables_metadata`
Registered(tables_metadata, name) ==
  \E i \in 1..Len(tables_metadata) : tables_metadata[i].name = name
\* self.metadata.tables_metadata[table_name]
TableByName(tables_metadata, name) ==
  tables_metadata[CHOOSE i \in 1..Len(tables_metadata) : tables_metadata[i].name = name]

\* variant of PlannerPrompt that reads relevant_tables[0] without the
\* `if relevant_tables else` guard
PlannerPromptUnguarded(relevant_tables, tables_metadata) ==
  IF relevant_tables = <<>>
  THEN [exc |-> "IndexError", tables |-> relevant_tables, max_year_known |-> FALSE,
        max_year |-> NullInt, columns |-> <<>>]
  ELSE IF ~Registered(tables_metadata, relevant_tables[1])
  THEN [exc |-> KeyError, tables |-> relevant_tables, max_year_known |-> FALSE,
        max_year |-> NullInt, columns |-> <<>>]
  ELSE [exc |-> NoExc, tables |-> relevant_tables, max_year_known |-> TRUE,
        max_year |-> TableByName(tables_metadata, relevant_tables[1]).date_range.max,
        columns |-> TableByName(tables_metadata, relevant_tables[1]).columns]

\* the schema context and the prompt of generate_plans, built before its
\* try block: `... date_range[1] if relevant_tables else 'unknown'` and
\* `... columns if relevant_tables else []`
PlannerPrompt(relevant_tables, tables_metadata) ==
  IF relevant_tables = <<>>
  THEN [exc |-> NoExc, tables |-> relevant_tables, max_year_known |-> FALSE,
        max_year |-> NullInt, columns |-> <<>>]
  ELSE IF ~Registered(tables_metadata, relevant_tables[1])
  THEN [exc |-> KeyError, tables |-> relevant_tables, max_year_known |-> FALSE,
        max_year |-> NullInt, columns |-> <<>>]
  ELSE [exc |-> NoExc, tables |-> relevant_tables, max_year_known |-> TRUE,
        max_year |-> TableByName(tables_metadata, relevant_tables[1]).date_range.max,
        columns |-> TableByName(tables_metadata, relevant_tables[1]).columns]

\* ------------------------------------------------------------------------
\* Trace lines appended to the module-level list `logs`.  tag names the
\* f-string, the other fields hold the values formatted into it.
\* ------------------------------------------------------------------------
LogLine(tag, n, name, text) ==
  [tag |-> tag, n |-> n, name |-> name, text |-> text,
   params |-> <<>>, tables |-> <<>>, rows |-> 0, time |-> 0]

\* s[:80]
Take80(s) == SubSeq(s, 1, IF Len(s) < 80 THEN Len(s) ELSE 80)

\* f"{execution_time:.3f}": thousandths of a second, from a time in
\* ten-thousandths
Format3f(t) == (t + 5) \div 10

\* ------------------------------------------------------------------------
\* Stage 1: QueryUnderstanding.parse_query
\* ------------------------------------------------------------------------
IntentTypes == {"compare", "analyze", "identify", "correlate", "policy", "lookup"}

QueryIntent(intent_type, entities, metrics, constraints, temporal_scope) ==
  [intent_type |-> intent_type, entities |-> entities, metrics |-> metrics,
   constraints |-> constraints, temporal_scope |-> temporal_scope]

DefaultIntent == QueryIntent("lookup", <<>>, <<>>, {}, None)

EmptyIntentObj ==
  [has |-> {}, intent_type |-> "", entities |-> <<>>, metrics |-> <<>>,
   constraints |-> {}, temporal_scope |-> None]
FullIntentObj(t) ==
  [has |-> {"intent_type", "entities", "metrics", "constraints", "temporal_scope"},
   intent_type |-> t, entities |-> <<"Wheat">>, metrics |-> <<"production">>,
   constraints |-> {<<"year", "2014">>}, temporal_scope |-> "2014"]
\* an object without 'intent_type' and without 'temporal_scope'
PartialIntentObj ==
  [has |-> {"entities", "metrics", "constraints"},
   intent_type |-> "", entities |-> <<"Wheat">>, metrics |-> <<"production">>,
   constraints |-> {<<"year", "2014">>}, temporal_scope |-> None]
\* objects the LLM may answer with; "summarize" is outside the enumeration
IntentObjects ==
  {FullIntentObj(t) : t \in {"compare", "summarize"}}
    \cup {PartialIntentObj, EmptyIntentObj}

Reply1Set ==
  {[status |-> s, obj |-> EmptyIntentObj] : s \in {"error", "badjson"}}
    \cup {[status |-> "ok", obj |-> o] : o \in IntentObjects}

\* the try block of parse_query
\* calls counts the invocations of client.chat.completions.create
ParseQueryBody(reply) ==
  IF LLMExc(reply) # NoExc
  THEN [exc |-> LLMExc(reply), val |-> DefaultIntent, logs |-> <<>>, calls |-> 1]
  ELSE [exc |-> NoExc,
        val |-> QueryIntent(JsonGet(reply.obj, "intent_type", "lookup"),
                            JsonGet(reply.obj, "entities", <<>>),
                            JsonGet(reply.obj, "metrics", <<>>),
                            JsonGet(reply.obj, "constraints", {}),
                            JsonGet(reply.obj, "temporal_scope", None)),
        logs |-> <<LogLine("intent_extracted", 0,
                           JsonGet(reply.obj, "intent_type", "unknown"), <<>>)>>,
        calls |-> 1]

Stage1Line == LogLine("stage1", 0, "", <<>>)

\* variant of ParseQuery without the except clause
ParseQueryNoCatch(reply) ==
  [raised |-> ParseQueryBody(reply).exc, val |-> ParseQueryBody(reply).val,
   logs |-> <<Stage1Line>> \o ParseQueryBody(reply).logs,
   calls |-> ParseQueryBody(reply).calls]

\* variant of ParseQuery that repeats a failed LLM call once
ParseQueryRetry(reply) ==
  IF ParseQueryBody(reply).exc # NoExc
  THEN [raised |-> NoExc, val |-> DefaultIntent,
        logs |-> <<Stage1Line,
                   LogLine("intent_failed", 0, ParseQueryBody(reply).exc, <<>>)>>,
        calls |-> ParseQueryBody(reply).calls + 1]
  ELSE [raised |-> NoExc, val |-> ParseQueryBody(reply).val,
        logs |-> <<Stage1Line>> \o ParseQueryBody(reply).logs,
        calls |-> ParseQueryBody(reply).calls]

\* parse_query: `except Exception` returns QueryIntent('lookup', [], [], {})
ParseQuery(reply) ==
  LET body == ParseQueryBody(reply)
  IN  IF body.exc # NoExc
      THEN [raised |-> NoExc, val |-> DefaultIntent,
            logs |-> <<Stage1Line>> \o body.logs
                       \o <<LogLine("intent_failed", 0, body.exc, <<>>)>>,
            calls |-> body.calls]
      ELSE [raised |-> NoExc, val |-> body.val,
            logs |-> <<Stage1Line>> \o body.logs, calls |-> body.calls]

\* ------------------------------------------------------------------------
\* Stage 2: QueryPlanner.generate_plans
\* ------------------------------------------------------------------------
QueryPlan(sql_query, parameters, target_table, intent, expected_columns) ==
  [sql_query |-> sql_query, parameters |-> parameters,
   target_table |-> target_table, intent |-> intent,
   expected_columns |-> expected_columns]

PlanSpec(has, sql, parameters, target_table) ==
  [has |-> has, sql |-> sql, parameters |-> parameters,
   target_table |-> target_table, expected_columns |-> <<"State">>]

AllPlanKeys == {"sql", "parameters", "target_table", "expected_columns"}

\* entries of 'query_plans' the LLM may emit
PlanSpecs == {
  \* state in lower case: matches after casing correction
  PlanSpec(AllPlanKeys, SqlState, <<StrVal(TxtAssamLower)>>, "crop_yield"),
  \* a state that is not in the store: zero rows
  PlanSpec(AllPlanKeys, SqlState, <<StrVal(TxtGoaLower)>>, "crop_yield"),
  \* a season and a state placeholder in one statement
  PlanSpec(AllPlanKeys, SqlSeasonState,
           <<StrVal(TxtKharifLower), StrVal(TxtAssamLower)>>, "crop_yield"),
  \* a number parameter, and a target table that is not configured
  PlanSpec(AllPlanKeys, SqlYear, <<IntVal(Txt2018)>>, "rainfall"),
  \* no 'parameters' and no 'expected_columns'
  PlanSpec({"sql", "target_table"}, SqlAll, <<>>, "crop_yield"),
  \* fewer parameters than placeholders: binding error
  PlanSpec({"sql", "target_table", "expected_columns"}, SqlState, <<>>, "crop_yield"),
  \* a statement that writes: refused by the read-only connection
  PlanSpec(AllPlanKeys, SqlDelete, <<>>, "crop_yield"),
  \* malformed entries
  PlanSpec({"parameters", "target_table"}, <<>>, <<>>, "crop_yield"),
  PlanSpec({"sql", "parameters"}, SqlAll, <<>>, "")
}

RECURSIVE SeqsUpTo(_, _)
SeqsUpTo(S, n) ==
  IF n = 0 THEN {<<>>}
  ELSE LET shorter == SeqsUpTo(S, n - 1)
       IN  shorter \cup {Append(q, x) : q \in {r \in shorter : Len(r) = n - 1}, x \in S}

EmptyPlansObj == [has |-> {}, query_plans |-> <<>>]
PlansObjects ==
  {[has |-> {"query_plans"}, query_plans |-> l] : l \in SeqsUpTo(PlanSpecs, MaxPlans)}
    \cup {EmptyPlansObj}

Reply2Set ==
  {[status |-> s, obj |-> EmptyPlansObj] : s \in {"error", "badjson"}}
    \cup {[status |-> "ok", obj |-> o] : o \in PlansObjects}

\* `for plan_spec in result.get('query_plans', [])`
\* lines collects the trace lines the loop appends
RECURSIVE PlanLoop(_, _, _, _, _)
PlanLoop(specs, intent, i, plans, lines) ==
  IF i > Len(specs) THEN [exc |-> NoExc, val |-> plans, logs |-> lines]
  ELSE LET plan_spec == specs[i]
       IN  IF ~JsonHas(plan_spec, "sql") \/ ~JsonHas(plan_spec, "target_table")
           THEN [exc |-> KeyError, val |-> plans, logs |-> lines]
           ELSE PlanLoop(specs, intent, i + 1,
                  Append(plans,
                         QueryPlan(plan_spec.sql,
                                   JsonGet(plan_spec, "parameters", <<>>),
                                   plan_spec.target_table,
                                   intent,
                                   JsonGet(plan_spec, "expected_columns", <<>>))),
                  Append(lines,
                         LogLine("plan_generated", 0, plan_spec.target_table,
                                 Take80(plan_spec.sql))))

\* the try block of generate_plans
GeneratePlansBody(reply, intent) ==
  IF LLMExc(reply) # NoExc
  THEN [exc |-> LLMExc(reply), val |-> <<>>, logs |-> <<>>, calls |-> 1]
  ELSE LET loop == PlanLoop(JsonGet(reply.obj, "query_plans", <<>>), intent, 1,
                            <<>>, <<>>)
       IN  [exc |-> loop.exc, val |-> loop.val, logs |-> loop.logs, calls |-> 1]

\* the two lines generate_plans appends before its try block
Stage2Lines(relevant_tables) ==
  <<LogLine("stage2", 0, "", <<>>),
    [LogLine("relevant_tables", 0, "", <<>>) EXCEPT !.tables = relevant_tables]>>

\* variant of GeneratePlans without the except clause
GeneratePlansNoCatch(reply, intent, relevant_tables) ==
  [raised |-> GeneratePlansBody(reply, intent).exc,
   val |-> GeneratePlansBody(reply, intent).val,
   logs |-> Stage2Lines(relevant_tables) \o GeneratePlansBody(reply, intent).logs,
   calls |-> GeneratePlansBody(reply, intent).calls]

\* variant of GeneratePlans whose except clause returns the plans built
\* before the malformed entry
GeneratePlansPartial(reply, intent, relevant_tables) ==
  [raised |-> NoExc, val |-> GeneratePlansBody(reply, intent).val,
   logs |-> Stage2Lines(relevant_tables) \o GeneratePlansBody(reply, intent).logs,
   calls |-> GeneratePlansBody(reply, intent).calls]

\* generate_plans: `except Exception` returns []
GeneratePlans(reply, intent, relevant_tables) ==
  LET body == GeneratePlansBody(reply, intent)
  IN  IF body.exc # NoExc
      THEN [raised |-> NoExc, val |-> <<>>,
            logs |-> Stage2Lines(relevant_tables) \o body.logs
                       \o <<LogLine("planning_failed", 0, body.exc, <<>>)>>,
            calls |-> body.calls]
      ELSE [raised |-> NoExc, val |-> body.val,
            logs |-> Stage2Lines(relevant_tables) \o body.logs,
            calls |-> body.calls]

\* ------------------------------------------------------------------------
\* Stage 3: DataExecutor.execute_plans
\* ------------------------------------------------------------------------
\* variant of ExecutionResult that counts the columns of the frame
ExecutionResultColumnCount(plan, rows, corrected_params, execution_time) ==
  [data |-> rows,
   query_plan |-> plan,
   execution_time |-> execution_time,
   row_count |-> IF rows = <<>> THEN 0 ELSE Cardinality(DOMAIN rows[1]),
   source_metadata |-> [table |-> plan.target_table,
                        url |-> SourceUrl(plan.target_table),
                        file |-> SourceFile(plan.target_table),
                        query |-> plan.sql_query,
                        parameters |-> corrected_params]]

\* variant of ExecutionResult that records the parameters as planned
ExecutionResultPlannedParams(plan, rows, corrected_params, execution_time) ==
  [data |-> rows,
   query_plan |-> plan,
   execution_time |-> execution_time,
   row_count |-> Len(rows),
   source_metadata |-> [table |-> plan.target_table,
                        url |-> SourceUrl(plan.target_table),
                        file |-> SourceFile(plan.target_table),
                        query |-> plan.sql_query,
                        parameters |-> plan.parameters]]

\* `result = ExecutionResult(...)`: row_count=len(df)
ExecutionResult(plan, rows, corrected_params, execution_time) ==
  [data |-> rows,
   query_plan |-> plan,
   execution_time |-> execution_time,
   row_count |-> Len(rows),
   source_metadata |-> [table |-> plan.target_table,
                        url |-> SourceUrl(plan.target_table),
                        file |-> SourceFile(plan.target_table),
                        query |-> plan.sql_query,
                        parameters |-> corrected_params]]

\* the two lines the loop appends for plan i (enumerate index i - 1)
ExecutingLine(i, plan, corrected_params) ==
  [LogLine("executing", i, "", Take80(plan.sql_query)) EXCEPT !.params = corrected_params]
ExecutedLine(i, rows, execution_time) ==
  [LogLine("executed", i, "", <<>>) EXCEPT !.rows = Len(rows),
                                           !.time = Format3f(execution_time)]

\* variant of ExecLoop with per-plan isolation: a failing plan is skipped
RECURSIVE ExecLoopIsolated(_, _, _, _, _, _)
ExecLoopIsolated(plans, elapsed, store, i, results, lines) ==
  IF i > Len(plans)
  THEN [exc |-> NoExc, results |-> results, attempted |-> Len(plans),
        logs |-> lines, store |-> store]
  ELSE LET plan == plans[i]
           corrected_params == CorrectParameters(plan.sql_query, plan.parameters)
           df == RunQuery(store, plan.sql_query, corrected_params)
       IN  IF df.exc # NoExc
           THEN ExecLoopIsolated(plans, elapsed, df.store, i + 1, results,
                                 Append(lines, ExecutingLine(i, plan, corrected_params)))
           ELSE ExecLoopIsolated(plans, elapsed, df.store, i + 1,
                  Append(results,
                         ExecutionResult(plan, df.rows, corrected_params, elapsed[i])),
                  lines \o <<ExecutingLine(i, plan, corrected_params),
                             ExecutedLine(i, df.rows, elapsed[i])>>)

\* variant of ExecLoop that walks the plan list from its end
RECURSIVE ExecLoopReversed(_, _, _, _, _, _)
ExecLoopReversed(plans, elapsed, store, i, results, lines) ==
  IF i > Len(plans)
  THEN [exc |-> NoExc, results |-> results, attempted |-> Len(plans),
        logs |-> lines, store |-> store]
  ELSE LET plan == plans[Len(plans) + 1 - i]
           corrected_params == CorrectParameters(plan.sql_query, plan.parameters)
           df == RunQuery(store, plan.sql_query, corrected_params)
       IN  IF df.exc # NoExc
           THEN [exc |-> df.exc, results |-> results, attempted |-> i,
                 logs |-> Append(lines, ExecutingLine(i, plan, corrected_params)),
                 store |-> df.store]
           ELSE ExecLoopReversed(plans, elapsed, df.store, i + 1,
                  Append(results,
                         ExecutionResult(plan, df.rows, corrected_params, elapsed[i])),
                  lines \o <<ExecutingLine(i, plan, corrected_params),
                             ExecutedLine(i, df.rows, elapsed[i])>>)

\* `for i, plan in enumerate(plans)`; attempted counts the plans whose
\* query was handed to the store, elapsed[i] is time.time() - start_time of
\* plan i, store is the table before and after, lines the trace lines
RECURSIVE ExecLoop(_, _, _, _, _, _)
ExecLoop(plans, elapsed, store, i, results, lines) ==
  IF i > Len(plans)
  THEN [exc |-> NoExc, results |-> results, attempted |-> Len(plans),
        logs |-> lines, store |-> store]
  ELSE LET plan == plans[i]
           corrected_params == CorrectParameters(plan.sql_query, plan.parameters)
           df == RunQuery(store, plan.sql_query, corrected_params)
       IN  IF df.exc # NoExc
           THEN [exc |-> df.exc, results |-> results, attempted |-> i,
                 logs |-> Append(lines, ExecutingLine(i, plan, corrected_params)),
                 store |-> df.store]
           ELSE ExecLoop(plans, elapsed, df.store, i + 1,
                  Append(results,
                         ExecutionResult(plan, df.rows, corrected_params, elapsed[i])),
                  lines \o <<ExecutingLine(i, plan, corrected_params),
                             ExecutedLine(i, df.rows, elapsed[i])>>)

\* the try block of execute_plans; connectOk is whether sqlite3.connect
\* succeeds; opened counts the connections opened, closed the connections
\* closed: leaving `with sqlite3.connect(...) as conn` commits or rolls back
\* and does not close conn
ExecutePlansBody(plans, connectOk, elapsed, store) ==
  IF ~connectOk
  THEN [exc |-> OperationalError, results |-> <<>>, attempted |-> 0,
        logs |-> <<>>, store |-> store, opened |-> 0, closed |-> 0]
  ELSE LET loop == ExecLoop(plans, elapsed, store, 1, <<>>, <<>>)
       IN  [exc |-> loop.exc, results |-> loop.results,
            attempted |-> loop.attempted, logs |-> loop.logs,
            store |-> loop.store, opened |-> 1, closed |-> 0]

Stage3Line(plans) == LogLine("stage3", Len(plans), "", <<>>)

\* variant of ExecutePlans without the except clause
ExecutePlansNoCatch(plans, connectOk, elapsed, store) ==
  [raised |-> ExecutePlansBody(plans, connectOk, elapsed, store).exc,
   val |-> ExecutePlansBody(plans, connectOk, elapsed, store).results,
   error |-> ExecutePlansBody(plans, connectOk, elapsed, store).exc,
   attempted |-> ExecutePlansBody(plans, connectOk, elapsed, store).attempted,
   logs |-> <<Stage3Line(plans)>>
              \o ExecutePlansBody(plans, connectOk, elapsed, store).logs,
   store |-> ExecutePlansBody(plans, connectOk, elapsed, store).store,
   opened |-> ExecutePlansBody(plans, connectOk, elapsed, store).opened,
   closed |-> ExecutePlansBody(plans, connectOk, elapsed, store).closed]

\* execute_plans: `except Exception` logs the error, then `return results`
ExecutePlans(plans, connectOk, elapsed, store) ==
  LET body == ExecutePlansBody(plans, connectOk, elapsed, store)
  IN  [raised |-> NoExc, val |-> body.results,
       error |-> body.exc, attempted |-> body.attempted,
       logs |-> <<Stage3Line(plans)>> \o body.logs
                  \o (IF body.exc # NoExc
                      THEN <<LogLine("execution_error", 0, body.exc, <<>>)>>
                      ELSE <<>>),
       store |-> body.store, opened |-> body.opened, closed |-> body.closed]

\* ------------------------------------------------------------------------
\* Stage 4: AnswerSynthesizer.synthesize and the orchestrator's fallbacks
\* ------------------------------------------------------------------------
NullViz == [is_null |-> TRUE, result_index |-> 0, type |-> "", x |-> "", y |-> ""]
BarViz ==
  [is_null |-> FALSE, result_index |-> 0, type |-> "bar", x |-> "State", y |-> "Crop_Year"]

AllSynthKeys == {"answer", "key_findings", "visualization", "limitations"}
SynthObj(has, answer, key_findings, visualization, limitations) ==
  [has |-> has, answer |-> answer, key_findings |-> key_findings,
   visualization |-> visualization, limitations |-> limitations]

EmptySynthObj == SynthObj({}, "", <<>>, NullViz, None)
SynthObjects == {
  SynthObj(AllSynthKeys, "Assam produced the most wheat.", <<"Assam leads">>,
           BarViz, "Data until 2018"),
  \* no 'answer' key
  SynthObj({"key_findings", "limitations"}, "", <<"Assam leads">>, NullViz,
           "Data until 2018")
}

Reply4Set ==
  {[status |-> s, obj |-> EmptySynthObj] : s \in {"error", "badjson"}}
    \cup {[status |-> "ok", obj |-> o] : o \in SynthObjects}

SynthesisErrorAnswer == "Unable to generate answer due to synthesis error."
PlanningFailedAnswer == "I was unable to create a data retrieval plan for that question."
NoDataAnswer == "I found no data matching your query."

\* the try block of synthesize
SynthesizeBody(reply) ==
  IF LLMExc(reply) # NoExc
  THEN [exc |-> LLMExc(reply), val |-> EmptySynthObj, logs |-> <<>>, calls |-> 1]
  ELSE [exc |-> NoExc, val |-> reply.obj,
        logs |-> <<LogLine("synthesized", 0, "", <<>>)>>, calls |-> 1]

Stage4Line == LogLine("stage4", 0, "", <<>>)

\* variant of Synthesize without the except clause
SynthesizeNoCatch(reply) ==
  [raised |-> SynthesizeBody(reply).exc, val |-> SynthesizeBody(reply).val,
   logs |-> <<Stage4Line>> \o SynthesizeBody(reply).logs,
   calls |-> SynthesizeBody(reply).calls]

\* variant of Synthesize whose fallback drops the error message
SynthesizeNoLimitations(reply) ==
  IF SynthesizeBody(reply).exc # NoExc
  THEN [raised |-> NoExc,
        val |-> SynthObj(AllSynthKeys, SynthesisErrorAnswer, <<>>, NullViz, None),
        logs |-> <<Stage4Line,
                   LogLine("synthesis_error", 0, SynthesizeBody(reply).exc, <<>>)>>,
        calls |-> SynthesizeBody(reply).calls]
  ELSE [raised |-> NoExc, val |-> SynthesizeBody(reply).val,
        logs |-> <<Stage4Line>> \o SynthesizeBody(reply).logs,
        calls |-> SynthesizeBody(reply).calls]

\* synthesize: `except Exception` returns the fixed answer and str(e)
Synthesize(reply) ==
  LET body == SynthesizeBody(reply)
  IN  IF body.exc # NoExc
      THEN [raised |-> NoExc,
            val |-> SynthObj(AllSynthKeys, SynthesisErrorAnswer, <<>>, NullViz, body.exc),
            logs |-> <<Stage4Line>> \o body.logs
                       \o <<LogLine("synthesis_error", 0, body.exc, <<>>)>>,
            calls |-> body.calls]
      ELSE [raised |-> NoExc, val |-> body.val,
            logs |-> <<Stage4Line>> \o body.logs, calls |-> body.calls]

\* ------------------------------------------------------------------------
\* ProvenanceTracker.generate_citations
\* ------------------------------------------------------------------------
\* the dict {} : no keys
EmptyCitations ==
  [keys |-> {}, sources |-> <<>>, queries |-> <<>>, data_lineage |-> <<>>]

\* variant of CitationLoop without the membership test on sources
RECURSIVE CitationLoopNoDedup(_, _, _)
CitationLoopNoDedup(results, i, citations) ==
  IF i > Len(results) THEN citations
  ELSE LET result == results[i]
           source_info == [table |-> result.source_metadata.table,
                           url |-> result.source_metadata.url,
                           file |-> result.source_metadata.file,
                           rows_retrieved |-> result.row_count]
       IN  CitationLoopNoDedup(results, i + 1,
             [keys |-> citations.keys,
              sources |-> Append(citations.sources, source_info),
              queries |-> Append(citations.queries,
                                 [query_id |-> i,
                                  sql |-> result.source_metadata.query,
                                  parameters |-> result.source_metadata.parameters,
                                  execution_time |-> Format3f(result.execution_time),
                                  rows_returned |-> result.row_count]),
              data_lineage |-> Append(citations.data_lineage,
                                      [result_id |-> i,
                                       table |-> result.source_metadata.table,
                                       intent |-> result.query_plan.intent.intent_type])])

\* `for i, result in enumerate(results)`: query_id and result_id are i + 1
RECURSIVE CitationLoop(_, _, _)
CitationLoop(results, i, citations) ==
  IF i > Len(results) THEN citations
  ELSE LET result == results[i]
           source_info == [table |-> result.source_metadata.table,
                           url |-> result.source_metadata.url,
                           file |-> result.source_metadata.file,
                           rows_retrieved |-> result.row_count]
       IN  CitationLoop(results, i + 1,
             [keys |-> citations.keys,
              sources |-> IF SeqContains(citations.sources, source_info)
                          THEN citations.sources
                          ELSE Append(citations.sources, source_info),
              queries |-> Append(citations.queries,
                                 [query_id |-> i,
                                  sql |-> result.source_metadata.query,
                                  parameters |-> result.source_metadata.parameters,
                                  execution_time |-> Format3f(result.execution_time),
                                  rows_returned |-> result.row_count]),
              data_lineage |-> Append(citations.data_lineage,
                                      [result_id |-> i,
                                       table |-> result.source_metadata.table,
                                       intent |-> result.query_plan.intent.intent_type])])

GenerateCitations(results) ==
  CitationLoop(results, 1,
               [keys |-> {"sources", "queries", "data_lineage"},
                sources |-> <<>>, queries |-> <<>>, data_lineage |-> <<>>])

\* ------------------------------------------------------------------------
\* Agent-based API (src/backend/app): the agents and AgentOrchestrator
\* ------------------------------------------------------------------------
\* str(e) of what an agent's `except Exception as e` caught
AgentErrors == {"connection refused", "no such table: rainfall"}
QueryTypes == {"comparison", "general"}

\* the dict an agent's process() returns; `has` is its key set
AgentResult(has, status, error, query_type, body) ==
  [has |-> has, status |-> status, error |-> error, query_type |-> query_type,
   body |-> body]
NoAgentResult == AgentResult({}, "", "", "", "")
AgentGet(result, key, default) ==
  IF key \in result.has THEN result[key] ELSE default

\* every agent returns {"status": "error", "error": str(e), ...} from its
\* except clause
AgentFailures(keys) ==
  {AgentResult({"agent", "status", "error"} \cup keys, "error", e, "", "") :
     e \in AgentErrors}

\* QueryUnderstandingAgent.process
UnderstandingOutcomes ==
  {AgentResult({"original_question", "extracted_entities", "agent", "status"},
               "success", "", t, "entities") : t \in QueryTypes}
    \cup AgentFailures({"original_question", "extracted_entities"})
\* DataRetrievalAgent.process: the handler of the query type answers
DataOutcomes(query_type) ==
  {AgentResult({"data", "sources", "query_type", "agent", "status"},
               "success", "", query_type, "rows")}
    \cup AgentFailures({"data", "sources"})
\* AnalysisAgent.process
AnalysisOutcomes ==
  {AgentResult({"analysis", "agent", "status"}, "success", "", "", "analysis")}
    \cup AgentFailures({"analysis"})
\* VisualizationAgent.process
VisualizationOutcomes ==
  {AgentResult({"agent", "status", "visualizations"}, "success", "", "", v) :
     v \in {"no charts", "charts"}}
    \cup AgentFailures({"visualizations"})
\* ResponseSynthesisAgent.process
SynthesisOutcomes ==
  {AgentResult({"agent", "status", "response", "summary", "citations",
                "visualizations", "raw_data", "confidence_score"},
               "success", "", "", "answer text")}
    \cup AgentFailures({"response", "citations", "visualizations"})

StepNames ==
  <<"query_understanding", "data_retrieval", "analysis", "visualization",
    "synthesis">>
NoSteps == [k \in 1..5 |-> ""]

\* the dict AgentOrchestrator.process_query returns
OrchestratorResult(has, status, error, details, question, response, steps) ==
  [has |-> has, status |-> status, error |-> error, details |-> details,
   question |-> question, response |-> response, processing_steps |-> steps]
NoOrchestratorResult == OrchestratorResult({}, "", "", "", "", "", NoSteps)

\* `return {"status": "error", "error": label, "details": ...get("error", "Unknown error")}`
StepFailed(label, out) ==
  OrchestratorResult({"status", "error", "details"}, "error", label,
                     AgentGet(out, "error", "Unknown error"), "", "", NoSteps)

\* the status of the k-th agent run
RunStatus(runs, k) == runs[k].result.status

\* outcome of a step: where process_query goes on, and what it returns
Continue(next) == [pc |-> next, result |-> NoOrchestratorResult]
Return(result) == [pc |-> "returned", result |-> result]

\* steps 1 to 3: `if ..._result["status"] != "success": return {...}`
AfterUnderstanding(out) ==
  IF out.status # "success"
  THEN Return(StepFailed("Failed to understand query", out))
  ELSE Continue("data_retrieval")
AfterRetrieval(out) ==
  IF out.status # "success"
  THEN Return(StepFailed("Failed to retrieve data", out))
  ELSE Continue("analysis")
AfterAnalysis(out) ==
  IF out.status # "success"
  THEN Return(StepFailed("Failed to analyze data", out))
  ELSE Continue("visualization")

\* variant of AfterVisualization in which a failed chart step is only logged
AfterVisualizationTolerant(question, runs, out) == Continue("synthesis")

\* step 4: the error return carries the question and the processing steps
AfterVisualization(question, runs, out) ==
  IF out.status # "success"
  THEN Return(OrchestratorResult(
                {"status", "error", "details", "question", "processing_steps"},
                "error", "Failed to generate visualizations",
                AgentGet(out, "error", "Unknown error"), question, "",
                <<RunStatus(runs, 1), RunStatus(runs, 2), RunStatus(runs, 3),
                  "error", "not_started">>))
  ELSE Continue("synthesis")

\* step 5 and `final_result`
AfterSynthesis(question, runs, out) ==
  IF out.status # "success"
  THEN Return(StepFailed("Failed to synthesize response", out))
  ELSE Return(OrchestratorResult(
                {"status", "question", "response", "summary", "citations",
                 "visualizations", "raw_data", "confidence_score",
                 "processing_steps"},
                "success", "", "", question, out.body,
                <<RunStatus(runs, 1), RunStatus(runs, 2), RunStatus(runs, 3),
                  RunStatus(runs, 4), out.status>>))

\* the pydantic model QueryResponse: status and question are required
RequiredFields == {"status", "question"}
ValidationError == "ValidationError"
\* what the caller of POST /api/query receives
HttpResponse(status_code, detail, body) ==
  [status_code |-> status_code, detail |-> detail, body |-> body]
NoHttpResponse == HttpResponse(0, "", NoOrchestratorResult)
\* `return QueryResponse(**result)` inside `try`, and
\* `except Exception as e: raise HTTPException(status_code=500, detail=str(e))`
ApiQueryResponse(result) ==
  IF RequiredFields \subseteq result.has
  THEN HttpResponse(200, "", result)
  ELSE HttpResponse(500, ValidationError, NoOrchestratorResult)

\* ------------------------------------------------------------------------
\* Rendering of the LLM-authored chart specification (src/main.py, main)
\* ------------------------------------------------------------------------
IndexError == "IndexError"
ValueError == "ValueError"

\* synthesis['visualization']: None, or a dict with the key set `has`
ChartSpec(has, result_index, type, x, y) ==
  [is_null |-> FALSE, has |-> has, result_index |-> result_index,
   type |-> type, x |-> x, y |-> y]
NullChart ==
  [is_null |-> TRUE, has |-> {}, result_index |-> 0, type |-> "", x |-> "",
   y |-> ""]
AllChartKeys == {"type", "x", "y", "title", "result_index"}
plot_func == {"bar", "line", "scatter"}

\* a result's DataFrame: its columns and its number of rows
Frame(columns, rows) == [columns |-> columns, rows |-> rows]
FrameEmpty(df) == df.rows = 0 \/ df.columns = {}

\* results[result_idx] of a Python list: a negative index counts from the
\* end, an index outside -len..len-1 raises IndexError
ListIndexRaises(n, idx) == idx >= n \/ idx < -n
ListIndex(n, idx) == IF idx >= 0 THEN idx + 1 ELSE n + idx + 1

\* what the rendering step ends in: a chart of results[used], nothing, an
\* error message on the page, or an exception that leaves the step
ChartOutcome(outcome, used, raised) ==
  [outcome |-> outcome, used |-> used, raised |-> raised]
NotRendered == ChartOutcome("not_rendered", 0, NoExc)
ErrorShown(exc) == ChartOutcome("error_shown", 0, NoExc)

\* the body of `try:` : plot_func(df, x=viz['x'], y=viz['y'], ..., title=viz['title'])
PlotChart(viz, df) ==
  IF "type" \notin viz.has THEN KeyError
  ELSE IF viz.type \notin plot_func THEN NoExc
  ELSE IF ~({"x", "y", "title"} \subseteq viz.has) THEN KeyError
  ELSE IF viz.x \notin df.columns \/ viz.y \notin df.columns THEN ValueError
  ELSE NoExc
Plotted(viz) == "type" \in viz.has /\ viz.type \in plot_func

\* `if synthesis.get('visualization') and results:` and what follows
RenderVisualization(viz, results) ==
  IF viz.is_null \/ viz.has = {} \/ results = <<>>
  THEN NotRendered
  ELSE LET result_idx == IF "result_index" \in viz.has THEN viz.result_index ELSE 0
       IN  IF ~(result_idx < Len(results))
           THEN NotRendered
           ELSE IF ListIndexRaises(Len(results), result_idx)
           THEN ChartOutcome("not_rendered", 0, IndexError)
           ELSE LET used == ListIndex(Len(results), result_idx)
                    df   == results[used]
                IN  IF FrameEmpty(df)
                    THEN NotRendered
                    ELSE IF PlotChart(viz, df) # NoExc
                    THEN ErrorShown(PlotChart(viz, df))
                    ELSE IF Plotted(viz)
                    THEN ChartOutcome("rendered", used, NoExc)
                    ELSE NotRendered

\* ------------------------------------------------------------------------
\* The request handler process_query (POST /query)
\* ------------------------------------------------------------------------
VARIABLES
  pc,          \* position of the request in process_query
  question,    \* request.question
  intent,      \* stage 1 output
  plans,       \* stage 2 output
  results,     \* stage 3 output
  synthesis,   \* stage 4 output
  citations,   \* provenance record
  response,    \* what the caller receives
  reply1,      \* what the LLM answered in stage 1
  reply2,      \* what the LLM answered in stage 2
  reply4,      \* what the LLM answered in stage 4
  connectOk,   \* whether sqlite3.connect succeeded in stage 3
  execError,   \* the exception execute_plans caught and logged
  attempted,   \* number of plans whose query was handed to the store
  ownLines,    \* the trace lines this request's stages appended
  llmCalls,    \* LLM calls issued by each stage of this request
  connsOpened, \* connections opened by this request
  logs,        \* the module-level list `logs`
  store,       \* the rows of table crop_yield in the database file
  connUnclosed,     \* a connection of an earlier execute_plans is still open
  tables_metadata,  \* metadata_store.tables_metadata
  mdSources,   \* MetadataStore: the data_sources it was constructed with
  mdPresent,   \* MetadataStore: the tables of the database file
  mdConnectOk, \* MetadataStore: whether sqlite3.connect succeeds
  mdError,     \* MetadataStore: the exception _initialize_metadata logged
  mdPc,        \* MetadataStore: before or after construction
  cpSql,       \* casing correction on its own: the SQL text
  cpParams,    \* casing correction on its own: the parameters
  cpOut,       \* casing correction on its own: the returned list
  cpPc,        \* casing correction on its own: position
  agPc,        \* agent-based API: position of the request in POST /api/query
  agQuestion,  \* agent-based API: request.question
  agRuns,      \* agent-based API: the agents run so far, with what they returned
  agResult,    \* agent-based API: what AgentOrchestrator.process_query returned
  agHttp,      \* agent-based API: what the caller of POST /api/query receives
  chViz,       \* chart rendering: synthesis['visualization']
  chResults,   \* chart rendering: the execution results at hand
  chOut,       \* chart rendering: what the rendering step ended in
  chPc         \* chart rendering: position

requestVars ==
  <<pc, question, intent, plans, results, synthesis, citations, response,
    reply1, reply2, reply4, connectOk, execError, attempted, ownLines,
    llmCalls, connsOpened>>
processVars == <<logs, store, connUnclosed, tables_metadata>>
pipelineVars ==
  <<pc, question, intent, plans, results, synthesis, citations, response,
    reply1, reply2, reply4, connectOk, execError, attempted, ownLines,
    llmCalls, connsOpened, logs, store, connUnclosed, tables_metadata>>
mdVars == <<mdSources, mdPresent, mdConnectOk, mdError, mdPc>>
cpVars == <<cpSql, cpParams, cpOut, cpPc>>
agVars == <<agPc, agQuestion, agRuns, agResult, agHttp>>
chVars == <<chViz, chResults, chOut, chPc>>
vars == <<pc, question, intent, plans, results, synthesis, citations, response,
          reply1, reply2, reply4, connectOk, execError, attempted, ownLines,
          llmCalls, connsOpened, logs, store, connUnclosed, tables_metadata,
          mdSources, mdPresent, mdConnectOk, mdError, mdPc,
          cpSql, cpParams, cpOut, cpPc,
          agPc, agQuestion, agRuns, agResult, agHttp,
          chViz, chResults, chOut, chPc>>

\* str.strip()
IsSpace(c) == c = " "
RECURSIVE LStrip(_)
LStrip(s) == IF s # <<>> /\ IsSpace(Head(s)) THEN LStrip(Tail(s)) ELSE s
RECURSIVE RStrip(_)
RStrip(s) ==
  IF s # <<>> /\ IsSpace(s[Len(s)]) THEN RStrip(SubSeq(s, 1, Len(s) - 1)) ELSE s
StrStrip(s) == RStrip(LStrip(s))

Questions == {<<>>, <<" ", " ">>, <<"W","h","e","a","t"," ","i","n"," ","2","0","1","4","?"," ">>}

NoReply1 == [status |-> "none", obj |-> EmptyIntentObj]
NoReply2 == [status |-> "none", obj |-> EmptyPlansObj]
NoReply4 == [status |-> "none", obj |-> EmptySynthObj]

NoResponse ==
  [status |-> 0, detail |-> "", answer |-> "", key_findings |-> <<>>,
   visualization |-> NullViz, limitations |-> None,
   citations |-> EmptyCitations, results |-> <<>>, logs |-> <<>>]

\* `except Exception as e: raise HTTPException(status_code=500, detail=str(e))`
InternalError(detail) == [NoResponse EXCEPT !.status = 500, !.detail = detail]

\* results_data and QueryResponse(...)
ResultsData(rs) ==
  [i \in 1..Len(rs) |-> [data |-> rs[i].data, row_count |-> rs[i].row_count,
                         execution_time |-> rs[i].execution_time,
                         source_metadata |-> rs[i].source_metadata]]
QueryResponse(syn, cits, rs, lines) ==
  [status |-> 200, detail |-> "",
   answer |-> JsonGet(syn, "answer", ""),
   key_findings |-> JsonGet(syn, "key_findings", <<>>),
   visualization |-> JsonGet(syn, "visualization", NullViz),
   limitations |-> JsonGet(syn, "limitations", None),
   citations |-> cits,
   results |-> ResultsData(rs),
   logs |-> lines]

NoCalls == [understanding |-> 0, planning |-> 0, synthesis |-> 0]

PipelineIdle ==
  /\ pc = "idle"
  /\ question = <<>>
  /\ intent = DefaultIntent
  /\ plans = <<>>
  /\ results = <<>>
  /\ synthesis = EmptySynthObj
  /\ citations = EmptyCitations
  /\ response = NoResponse
  /\ reply1 = NoReply1
  /\ reply2 = NoReply2
  /\ reply4 = NoReply4
  /\ connectOk = TRUE
  /\ execError = NoExc
  /\ attempted = 0
  /\ ownLines = <<>>
  /\ llmCalls = NoCalls
  /\ connsOpened = 0

\* the process after initialize_components() on the seeded database file
ProcessStarted ==
  /\ logs = <<>>
  /\ store = StoreRows
  /\ connUnclosed = FALSE
  /\ tables_metadata = InitializeMetadata(DeployedSources, SeededTables, TRUE).val
  /\ mdSources = DeployedSources
  /\ mdPresent = SeededTables
  /\ mdConnectOk = TRUE
  /\ mdError = NoExc
  /\ mdPc = "ready"

CpOff ==
  /\ cpSql = <<>>
  /\ cpParams = <<>>
  /\ cpOut = <<>>
  /\ cpPc = "off"

ChOff ==
  /\ chViz = NullChart
  /\ chResults = <<>>
  /\ chOut = NotRendered
  /\ chPc = "off"

AgOff ==
  /\ agPc = "off"
  /\ agQuestion = ""
  /\ agRuns = <<>>
  /\ agResult = NoOrchestratorResult
  /\ agHttp = NoHttpResponse

Init == PipelineIdle /\ ProcessStarted /\ CpOff /\ AgOff /\ ChOff

\* a failure that reaches the outer `except Exception` of process_query
Fail500(detail) ==
  /\ response' = InternalError(detail)
  /\ pc' = "done"

\* variant of ResetLogs that keeps the list of the previous request
KeepLogs(old) == old

\* `global logs; logs = []`
ResetLogs(old) == <<>>

\* the handler is entered; `question = request.question.strip()`; the
\* HTTPException(400) is raised inside the try block, whose `except
\* Exception` turns it into a 500.  process_query is a coroutine without an
\* await: the event loop runs each request to its end before it enters
\* the next one, so requests received concurrently are handled one after
\* another.
Submit(q) ==
  /\ pc = "idle"
  /\ logs' = ResetLogs(logs)
  /\ question' = StrStrip(q)
  /\ IF StrStrip(q) = <<>>
     THEN Fail500("400: Question cannot be empty")
     ELSE pc' = "stage1" /\ UNCHANGED response
  /\ UNCHANGED <<intent, plans, results, synthesis, citations, reply1, reply2,
                 reply4, connectOk, execError, attempted, ownLines, llmCalls,
                 connsOpened>>
  /\ UNCHANGED <<store, connUnclosed, tables_metadata>>
  /\ UNCHANGED <<mdVars, cpVars, agVars, chVars>>

\* `intent = query_understanding.parse_query(question)`
Stage1(r) ==
  /\ pc = "stage1"
  /\ reply1' = r
  /\ \E context \in {SchemaContext(tables_metadata)} :
     \E out \in {ParseQuery(r)} :
         IF context.exc # NoExc
         THEN /\ logs' = Append(logs, Stage1Line)
              /\ ownLines' = Append(ownLines, Stage1Line)
              /\ Fail500(context.exc)
              /\ UNCHANGED <<llmCalls, intent>>
         ELSE /\ logs' = logs \o out.logs
              /\ ownLines' = ownLines \o out.logs
              /\ llmCalls' = [llmCalls EXCEPT !.understanding = @ + out.calls]
              /\ IF out.raised # NoExc
                 THEN Fail500(out.raised) /\ UNCHANGED intent
                 ELSE intent' = out.val /\ pc' = "stage2" /\ UNCHANGED response
  /\ UNCHANGED <<question, plans, results, synthesis, citations, reply2,
                 reply4, connectOk, execError, attempted, connsOpened>>
  /\ UNCHANGED <<store, connUnclosed, tables_metadata>>
  /\ UNCHANGED <<mdVars, cpVars, agVars, chVars>>

\* variant of GetRelevantTables that empties the store's dict while it
\* selects tables
GetRelevantTablesPruning(metadata) ==
  [val |-> RelevantTables(metadata), tables_metadata |-> <<>>]

\* self.metadata.get_relevant_tables(question): the table names, and the
\* store's dict after the call
GetRelevantTables(metadata) ==
  [val |-> RelevantTables(metadata), tables_metadata |-> metadata]

\* `plans = query_planner.generate_plans(intent, question)`
Stage2(r) ==
  /\ pc = "stage2"
  /\ reply2' = r
  /\ \E relevant_tables \in {GetRelevantTables(tables_metadata)} :
     \E prompt \in {PlannerPrompt(relevant_tables.val, relevant_tables.tables_metadata)} :
     \E out \in {GeneratePlans(r, intent, relevant_tables.val)} :
         /\ tables_metadata' = relevant_tables.tables_metadata
         /\ IF prompt.exc # NoExc
            THEN /\ logs' = logs \o Stage2Lines(relevant_tables.val)
                 /\ ownLines' = ownLines \o Stage2Lines(relevant_tables.val)
                 /\ Fail500(prompt.exc)
                 /\ UNCHANGED <<llmCalls, plans>>
            ELSE /\ logs' = logs \o out.logs
                 /\ ownLines' = ownLines \o out.logs
                 /\ llmCalls' = [llmCalls EXCEPT !.planning = @ + out.calls]
                 /\ IF out.raised # NoExc
                    THEN Fail500(out.raised) /\ UNCHANGED plans
                    ELSE plans' = out.val /\ pc' = "stage3" /\ UNCHANGED response
  /\ UNCHANGED <<question, intent, results, synthesis, citations, reply1,
                 reply4, connectOk, execError, attempted, connsOpened>>
  /\ UNCHANGED <<store, connUnclosed>>
  /\ UNCHANGED <<mdVars, cpVars, agVars, chVars>>

\* time.time() - start_time of each plan, in ten-thousandths of a second
ElapsedProfiles ==
  {[i \in 1..MaxPlans |-> 4], [i \in 1..MaxPlans |-> 6 * i + 4]}

\* `if plans: results = data_executor.execute_plans(plans)`
Stage3Execute(c, elapsed) ==
  /\ pc = "stage3"
  /\ plans # <<>>
  /\ connectOk' = c
  /\ \E out \in {ExecutePlans(plans, c, elapsed, store)} :
         /\ execError' = out.error
         /\ attempted' = out.attempted
         /\ store' = out.store
         /\ connsOpened' = connsOpened + out.opened
         /\ connUnclosed' = (connUnclosed \/ out.opened > out.closed)
         /\ logs' = logs \o out.logs
         /\ ownLines' = ownLines \o out.logs
         /\ IF out.raised # NoExc
            THEN Fail500(out.raised) /\ UNCHANGED results
            ELSE results' = out.val /\ pc' = "stage4" /\ UNCHANGED response
  /\ UNCHANGED <<question, intent, plans, synthesis, citations, reply1,
                 reply2, reply4, llmCalls>>
  /\ UNCHANGED tables_metadata
  /\ UNCHANGED <<mdVars, cpVars, agVars, chVars>>

\* `else: results = []`
Stage3Skip ==
  /\ pc = "stage3"
  /\ plans = <<>>
  /\ results' = <<>>
  /\ pc' = "stage4"
  /\ UNCHANGED <<question, intent, plans, synthesis, citations, response,
                 reply1, reply2, reply4, connectOk, execError, attempted,
                 ownLines, llmCalls, connsOpened>>
  /\ UNCHANGED <<processVars, mdVars, cpVars, agVars, chVars>>

\* variant of HasRows in which stage 4 always synthesizes
HasRowsUnconditional(rs) == TRUE

\* variant of HasRows that only tests `results`
HasRowsAnyResult(rs) == rs # <<>>

\* `results and not all(r.row_count == 0 for r in results)`
HasRows(rs) == rs # <<>> /\ ~(\A i \in 1..Len(rs) : rs[i].row_count = 0)

\* first branch of stage 4: `synthesis = answer_synthesizer.synthesize(...)`
Stage4Synthesize(r) ==
  /\ pc = "stage4"
  /\ HasRows(results)
  /\ reply4' = r
  /\ \E out \in {Synthesize(r)} :
         /\ logs' = logs \o out.logs
         /\ ownLines' = ownLines \o out.logs
         /\ llmCalls' = [llmCalls EXCEPT !.synthesis = @ + out.calls]
         /\ IF out.raised # NoExc
            THEN Fail500(out.raised) /\ UNCHANGED synthesis
            ELSE /\ synthesis' = out.val
                 /\ pc' = "provenance"
                 /\ UNCHANGED response
  /\ UNCHANGED <<question, intent, plans, results, citations, reply1, reply2,
                 connectOk, execError, attempted, connsOpened>>
  /\ UNCHANGED <<store, connUnclosed, tables_metadata>>
  /\ UNCHANGED <<mdVars, cpVars, agVars, chVars>>

\* first branch of stage 4, second statement:
\* `citations = ProvenanceTracker.generate_citations(results)`
Provenance ==
  /\ pc = "provenance"
  /\ citations' = GenerateCitations(results)
  /\ pc' = "respond"
  /\ UNCHANGED <<question, intent, plans, results, synthesis, response,
                 reply1, reply2, reply4, connectOk, execError, attempted,
                 ownLines, llmCalls, connsOpened>>
  /\ UNCHANGED <<processVars, mdVars, cpVars, agVars, chVars>>

\* `elif not plans:` the planning-failure answer
Stage4NoPlan ==
  /\ pc = "stage4"
  /\ ~HasRows(results)
  /\ plans = <<>>
  /\ synthesis' = SynthObj(AllSynthKeys, PlanningFailedAnswer, <<>>, NullViz,
                           "Query planning failed")
  /\ citations' = EmptyCitations
  /\ pc' = "respond"
  /\ UNCHANGED <<question, intent, plans, results, response, reply1, reply2,
                 reply4, connectOk, execError, attempted, ownLines, llmCalls,
                 connsOpened>>
  /\ UNCHANGED <<processVars, mdVars, cpVars, agVars, chVars>>

\* `else:` the no-data answer
Stage4NoData ==
  /\ pc = "stage4"
  /\ ~HasRows(results)
  /\ plans # <<>>
  /\ synthesis' = SynthObj(AllSynthKeys, NoDataAnswer, <<>>, NullViz,
                           "No matching data found")
  /\ citations' = EmptyCitations
  /\ pc' = "respond"
  /\ UNCHANGED <<question, intent, plans, results, response, reply1, reply2,
                 reply4, connectOk, execError, attempted, ownLines, llmCalls,
                 connsOpened>>
  /\ UNCHANGED <<processVars, mdVars, cpVars, agVars, chVars>>

\* `return QueryResponse(..., logs=logs)`
Respond ==
  /\ pc = "respond"
  /\ response' = QueryResponse(synthesis, citations, results, logs)
  /\ pc' = "done"
  /\ UNCHANGED <<question, intent, plans, results, synthesis, citations,
                 reply1, reply2, reply4, connectOk, execError, attempted,
                 ownLines, llmCalls, connsOpened>>
  /\ UNCHANGED <<processVars, mdVars, cpVars, agVars, chVars>>

\* the handler has returned; the next request starts from fresh locals,
\* the module-level state stays
NextRequest ==
  /\ pc = "done"
  /\ pc' = "idle"
  /\ question' = <<>>
  /\ intent' = DefaultIntent
  /\ plans' = <<>>
  /\ results' = <<>>
  /\ synthesis' = EmptySynthObj
  /\ citations' = EmptyCitations
  /\ response' = NoResponse
  /\ reply1' = NoReply1
  /\ reply2' = NoReply2
  /\ reply4' = NoReply4
  /\ connectOk' = TRUE
  /\ execError' = NoExc
  /\ attempted' = 0
  /\ ownLines' = <<>>
  /\ llmCalls' = NoCalls
  /\ connsOpened' = 0
  /\ UNCHANGED <<processVars, mdVars, cpVars, agVars, chVars>>

\* the interpreter reclaims the Connection object that execute_plans left
\* open, which closes it; when this happens is up to the interpreter
Finalize ==
  /\ connUnclosed
  /\ connUnclosed' = FALSE
  /\ UNCHANGED requestVars
  /\ UNCHANGED <<logs, store, tables_metadata>>
  /\ UNCHANGED <<mdVars, cpVars, agVars, chVars>>

Next ==
  \/ \E q \in Questions : Submit(q)
  \/ \E r \in Reply1Set : Stage1(r)
  \/ \E r \in Reply2Set : Stage2(r)
  \/ \E c \in BOOLEAN, elapsed \in ElapsedProfiles : Stage3Execute(c, elapsed)
  \/ Stage3Skip
  \/ \E r \in Reply4Set : Stage4Synthesize(r)
  \/ Provenance
  \/ Stage4NoPlan
  \/ Stage4NoData
  \/ Respond
  \/ NextRequest
  \/ Finalize

Spec == Init /\ [][Next]_vars

\* ------------------------------------------------------------------------
\* The same handler in a process whose metadata initialization failed
\* ------------------------------------------------------------------------
\* initialize_components() when sqlite3.connect fails in MetadataStore: the
\* error is logged, no table is registered, and the API starts
ProcessStartedWithoutMetadata ==
  /\ logs = <<>>
  /\ store = StoreRows
  /\ connUnclosed = FALSE
  /\ tables_metadata = InitializeMetadata(DeployedSources, SeededTables, FALSE).val
  /\ mdSources = DeployedSources
  /\ mdPresent = SeededTables
  /\ mdConnectOk = FALSE
  /\ mdError = InitializeMetadata(DeployedSources, SeededTables, FALSE).error
  /\ mdPc = "ready"

InitNoMetadata ==
  PipelineIdle /\ ProcessStartedWithoutMetadata /\ CpOff /\ AgOff /\ ChOff

SpecNoMetadata == InitNoMetadata /\ [][Next]_vars

\* ------------------------------------------------------------------------
\* MetadataStore construction on enumerated configurations and database
\* files
\* ------------------------------------------------------------------------
TableNameSet == {TableNames[k] : k \in 1..Len(TableNames)}
\* data_sources: a dict, so no table is declared twice
SourceConfigs ==
  {[i \in 1..Len(l) |-> DataSource(l[i])] :
     l \in {m \in SeqsUpTo(TableNameSet, MaxTables) :
              \A a, b \in 1..Len(m) : a # b => m[a] # m[b]}}

InitMeta ==
  /\ PipelineIdle
  /\ CpOff
  /\ AgOff
  /\ ChOff
  /\ logs = <<>>
  /\ store = StoreRows
  /\ connUnclosed = FALSE
  /\ tables_metadata = <<>>
  /\ mdSources \in SourceConfigs
  /\ mdPresent \in SUBSET TableNameSet
  /\ mdConnectOk \in BOOLEAN
  /\ mdError = NoExc
  /\ mdPc = "startup"

\* `metadata_store = MetadataStore(DB_PATH, DATA_SOURCES_MAP)`
Startup ==
  /\ mdPc = "startup"
  /\ \E out \in {InitializeMetadata(mdSources, mdPresent, mdConnectOk)} :
         /\ tables_metadata' = out.val
         /\ mdError' = out.error
         /\ mdPc' = IF out.raised # NoExc THEN "crashed" ELSE "ready"
  /\ UNCHANGED <<mdSources, mdPresent, mdConnectOk>>
  /\ UNCHANGED requestVars
  /\ UNCHANGED <<logs, store, connUnclosed>>
  /\ UNCHANGED <<cpVars, agVars, chVars>>

NextMeta == Startup

SpecMeta == InitMeta /\ [][NextMeta]_vars

\* ------------------------------------------------------------------------
\* The casing correction applied to enumerated SQL texts and parameter lists
\* ------------------------------------------------------------------------
ParamChars == {"a", "B", " "}
NullVal == [kind |-> "null", val |-> <<"n","u","l","l">>]
ParamValues ==
  {StrVal(s) : s \in SeqsUpTo(ParamChars, MaxStrLen)}
    \cup {IntVal(Txt2014), NullVal}

\* parameter lists up to MaxParams in which at most one string is longer
\* than one character
ParamLists ==
  {l \in SeqsUpTo(ParamValues, MaxParams) :
     Cardinality({i \in 1..Len(l) : IsInstanceStr(l[i]) /\ Len(l[i].val) > 1}) <= 1}

CorrectSqlPool ==
  {SqlState, SqlCropUpper, SqlDistrictIn, SqlSeason, SqlYear, SqlSeasonState,
   SqlLiteral, SqlAll}

InitCorrect ==
  /\ PipelineIdle
  /\ ProcessStarted
  /\ AgOff
  /\ ChOff
  /\ cpSql \in CorrectSqlPool
  /\ cpParams \in ParamLists
  /\ cpOut = <<>>
  /\ cpPc = "input"

\* `corrected_params = self._correct_parameters(plan.sql_query, plan.parameters)`
ApplyCorrect ==
  /\ cpPc = "input"
  /\ cpOut' = CorrectParameters(cpSql, cpParams)
  /\ cpPc' = "done"
  /\ UNCHANGED <<cpSql, cpParams>>
  /\ UNCHANGED <<pipelineVars, mdVars, agVars, chVars>>

NextCorrect == ApplyCorrect

SpecCorrect == InitCorrect /\ [][NextCorrect]_vars

\* ------------------------------------------------------------------------
\* POST /api/query of the agent-based API
\* ------------------------------------------------------------------------
AgQuestions == {"", "Compare rice and wheat production", "Rainfall trend?"}

InitAgent ==
  /\ PipelineIdle
  /\ ProcessStarted
  /\ CpOff
  /\ ChOff
  /\ agPc = "idle"
  /\ agQuestion = ""
  /\ agRuns = <<>>
  /\ agResult = NoOrchestratorResult
  /\ agHttp = NoHttpResponse

\* the handler is entered: `result = await orchestrator.process_query(request.question)`
AgSubmit(q) ==
  /\ agPc = "idle"
  /\ agQuestion' = q
  /\ agPc' = "query_understanding"
  /\ UNCHANGED <<agRuns, agResult, agHttp>>
  /\ UNCHANGED <<pipelineVars, mdVars, cpVars, chVars>>

\* one agent is awaited and its status is tested
AgentStep(step, out, after) ==
  /\ agPc = step
  /\ agRuns' = Append(agRuns, [step |-> step, result |-> out])
  /\ agPc' = after.pc
  /\ agResult' = after.result
  /\ UNCHANGED <<agQuestion, agHttp>>
  /\ UNCHANGED <<pipelineVars, mdVars, cpVars, chVars>>

\* Step 1: `query_result = await self.query_agent.process(...)`
AgUnderstanding(out) ==
  AgentStep("query_understanding", out, AfterUnderstanding(out))
\* Step 2: `data_result = await self.data_agent.process(...)`
AgRetrieval(out) ==
  /\ agRuns # <<>>
  /\ out \in DataOutcomes(agRuns[1].result.query_type)
  /\ AgentStep("data_retrieval", out, AfterRetrieval(out))
\* Step 3: `analysis_result = await self.analysis_agent.process(...)`
AgAnalysis(out) ==
  AgentStep("analysis", out, AfterAnalysis(out))
\* Step 4: `viz_result = await self.viz_agent.process(...)`
AgVisualization(out) ==
  AgentStep("visualization", out, AfterVisualization(agQuestion, agRuns, out))
\* Step 5: `synthesis_result = await self.synthesis_agent.process(...)`
AgSynthesis(out) ==
  AgentStep("synthesis", out, AfterSynthesis(agQuestion, agRuns, out))

\* `return QueryResponse(**result)`, or the HTTPException of the handler
AgRespond ==
  /\ agPc = "returned"
  /\ agHttp' = ApiQueryResponse(agResult)
  /\ agPc' = "done"
  /\ UNCHANGED <<agQuestion, agRuns, agResult>>
  /\ UNCHANGED <<pipelineVars, mdVars, cpVars, chVars>>

\* the next request gets a new AgentOrchestrator
AgNextRequest ==
  /\ agPc = "done"
  /\ agPc' = "idle"
  /\ agQuestion' = ""
  /\ agRuns' = <<>>
  /\ agResult' = NoOrchestratorResult
  /\ agHttp' = NoHttpResponse
  /\ UNCHANGED <<pipelineVars, mdVars, cpVars, chVars>>

NextAgent ==
  \/ \E q \in AgQuestions : AgSubmit(q)
  \/ \E out \in UnderstandingOutcomes : AgUnderstanding(out)
  \/ \E out \in UNION {DataOutcomes(t) : t \in QueryTypes} : AgRetrieval(out)
  \/ \E out \in AnalysisOutcomes : AgAnalysis(out)
  \/ \E out \in VisualizationOutcomes : AgVisualization(out)
  \/ \E out \in SynthesisOutcomes : AgSynthesis(out)
  \/ AgRespond
  \/ AgNextRequest

SpecAgent == InitAgent /\ [][NextAgent]_vars

\* ------------------------------------------------------------------------
\* The chart step applied to enumerated chart specifications and results
\* ------------------------------------------------------------------------
ChartColumns == {"state", "production"}
ChartFrames ==
  {Frame(ChartColumns, 0), Frame(ChartColumns, 2), Frame({"crop"}, 1)}
\* what the LLM may write as "visualization"
ChartSpecs ==
  {ChartSpec(AllChartKeys, i, t, x, "production") :
     i \in (0 - MaxPlans - 1)..MaxPlans, t \in {"bar", "pie"},
     x \in {"state", "district"}}
    \cup {ChartSpec(AllChartKeys \ {k}, 0, "line", "state", "production") :
            k \in AllChartKeys}
    \cup {ChartSpec({}, 0, "", "", ""), NullChart}

InitChart ==
  /\ PipelineIdle
  /\ ProcessStarted
  /\ CpOff
  /\ AgOff
  /\ chViz \in ChartSpecs
  /\ chResults \in SeqsUpTo(ChartFrames, MaxPlans)
  /\ chOut = NotRendered
  /\ chPc = "input"

\* the block under `# Visualization`
RenderStep ==
  /\ chPc = "input"
  /\ chOut' = RenderVisualization(chViz, chResults)
  /\ chPc' = "done"
  /\ UNCHANGED <<chViz, chResults>>
  /\ UNCHANGED <<pipelineVars, mdVars, cpVars, agVars>>

NextChart == RenderStep

SpecChart == InitChart /\ [][NextChart]_vars

\* ========================================================================
\* Properties
\* ========================================================================
LLMFailed(reply) == reply.status \in {"error", "badjson"}

\* Title Case stated position by position: a character is lower-cased when
\* the character before it has a case, upper-cased otherwise.
IsTitleCaseOf(out, s) ==
  /\ Len(out) = Len(s)
  /\ \A j \in 1..Len(s) :
       out[j] = IF j > 1 /\ IsCased(s[j - 1]) THEN ToLower(s[j]) ELSE ToUpper(s[j])

AllIndicators ==
  {state_indicators[k] : k \in 1..Len(state_indicators)}
    \cup {crop_indicators[k] : k \in 1..Len(crop_indicators)}
SqlHasIndicator(sql) ==
  LET lowered == StrLower(sql)
  IN  \E ind \in AllIndicators : Contains(lowered, ind)

C2_PlannerFailure ==
  LLMFailed(reply2) =>
    /\ plans = <<>>
    /\ attempted = 0
    /\ results = <<>>
    /\ pc = "done" =>
         /\ response.status = 200
         /\ response.answer = PlanningFailedAnswer
         /\ response.citations = EmptyCitations

C2_Witness ==
  /\ pc = "done"
  /\ reply2.status = "badjson"
  /\ response.answer = PlanningFailedAnswer
  /\ response.citations.keys = {}

AllZeroRows(rs) == \A i \in 1..Len(rs) : rs[i].row_count = 0

\* every plan was executed without an exception and returned zero rows
AllPlansRanEmpty ==
  /\ plans # <<>>
  /\ connectOk
  /\ execError = NoExc
  /\ Len(results) = Len(plans)
  /\ AllZeroRows(results)

\* C3: a non-empty plan list whose plans all execute successfully with zero
\* rows ends with the no-data answer, not the planning-failure answer.
C3_NoDataAnswer ==
  (pc = "done" /\ AllPlansRanEmpty) =>
    /\ response.status = 200
    /\ response.answer = NoDataAnswer
    /\ response.answer # PlanningFailedAnswer

C3_Witness ==
  /\ pc = "done"
  /\ Len(plans) = 2
  /\ AllPlansRanEmpty
  /\ response.answer = NoDataAnswer

\* whether the store raises for a plan
PlanFails(plan) ==
  RunQuery(StoreRows, plan.sql_query,
           CorrectParameters(plan.sql_query, plan.parameters)).exc # NoExc
\* the first plan that raises, Len(ps) + 1 when none does
FirstFailing(ps) ==
  IF \E k \in 1..Len(ps) : PlanFails(ps[k])
  THEN CHOOSE k \in 1..Len(ps) :
         PlanFails(ps[k]) /\ \A j \in 1..(k - 1) : ~PlanFails(ps[j])
  ELSE Len(ps) + 1

AfterStage3 == pc \in {"stage4", "respond", "done"} /\ plans # <<>>

\* C4: an exception in plan k ends the batch: the results are those of
\* plans 1..k-1 in plan order, no later plan is handed to the store, and
\* execute_plans returns normally.
C4_FailFastPrefix ==
  (AfterStage3 /\ connectOk) =>
    LET k == FirstFailing(plans)
    IN  /\ Len(results) = k - 1
        /\ \A i \in 1..Len(results) :
             /\ results[i].query_plan = plans[i]
             /\ results[i].source_metadata.query = plans[i].sql_query
        /\ attempted = IF k <= Len(plans) THEN k ELSE Len(plans)
        /\ (k <= Len(plans)) = (execError # NoExc)
        /\ response.status # 500

\* the second of two plans raises and the first plan's result is returned
C4_Witness ==
  /\ pc = "stage4"
  /\ connectOk
  /\ Len(plans) = 2
  /\ ~PlanFails(plans[1])
  /\ PlanFails(plans[2])
  /\ Len(results) = 1
  /\ execError = DatabaseError

PlanningFailed ==
  reply2.status # "none" /\ GeneratePlansBody(reply2, intent).exc # NoExc
ExecutionFailed == execError # NoExc
SynthesisFailed == LLMFailed(reply4)
Answered == pc = "done" /\ question # <<>>

\* C6 as stated: after any stage failure the response has an answer
\* message, an empty results list and an empty citations structure.
C6_FailureEmptyResults ==
  (Answered /\ (PlanningFailed \/ ExecutionFailed \/ SynthesisFailed)) =>
    /\ response.answer # ""
    /\ response.results = <<>>
    /\ response.citations = EmptyCitations

\* C6 (amended): after a planning failure, an execution failure that leaves
\* no result with rows, or a synthesis failure, the answer is a non-empty
\* message; citations are empty unless synthesis ran; results are empty when
\* planning failed or execution failed at the first plan; after a synthesis
\* failure the response keeps the executed results and their citations.
C6_FailureResponse ==
  Answered =>
    /\ PlanningFailed =>
         /\ response.status = 200
         /\ response.answer # ""
         /\ response.results = <<>>
         /\ response.citations = EmptyCitations
    /\ (ExecutionFailed /\ AllZeroRows(results)) =>
         /\ response.status = 200
         /\ response.answer # ""
         /\ response.citations = EmptyCitations
         /\ AllZeroRows(response.results)
         /\ attempted <= 1 => response.results = <<>>
    /\ SynthesisFailed =>
         /\ response.status = 200
         /\ response.answer # ""
         /\ response.results # <<>>
         /\ ~AllZeroRows(response.results)
         /\ response.citations.keys = {"sources", "queries", "data_lineage"}
         /\ Len(response.citations.queries) = Len(response.results)

\* a synthesis failure answered with the executed results and citations
C6_Witness ==
  /\ Answered
  /\ SynthesisFailed
  /\ response.answer = SynthesisErrorAnswer
  /\ Len(response.results) = 2
  /\ Len(response.citations.queries) = 2

\* C7: the no-data answer is given only when at least one plan was executed
\* successfully and every executed plan returned zero rows.
C7_NoDataOnlyAfterEmptyRun ==
  (pc = "done" /\ response.answer = NoDataAnswer) =>
    /\ Len(results) >= 1
    /\ AllZeroRows(results)

\* C8: when the stage 1 LLM call fails or its content is not JSON,
\* parse_query returns the default intent and nothing is raised.
C8_ParseQueryDefault ==
  LLMFailed(reply1) =>
    /\ intent = QueryIntent("lookup", <<>>, <<>>, {}, None)
    /\ response.status # 500

C8_Witness ==
  /\ pc = "stage2"
  /\ reply1.status = "badjson"
  /\ intent.intent_type = "lookup"
  /\ intent.entities = <<>>

LacksRequiredKey(plan_spec) ==
  "sql" \notin plan_spec.has \/ "target_table" \notin plan_spec.has

\* C9: valid JSON without a required key gives the stage's safe default:
\* the default intent, the empty plan list, the fixed fallback answer.
C9_MissingKeysDefault ==
  /\ (reply1.status = "ok" /\ "intent_type" \notin reply1.obj.has) =>
       intent = DefaultIntent
  /\ (reply2.status = "ok"
        /\ \E i \in 1..Len(reply2.obj.query_plans) :
             LacksRequiredKey(reply2.obj.query_plans[i])) =>
       plans = <<>>
  /\ (pc = "done" /\ reply4.status = "ok" /\ "answer" \notin reply4.obj.has) =>
       response.answer = SynthesisErrorAnswer

PlanEntries ==
  IF reply2.status = "ok" THEN JsonGet(reply2.obj, "query_plans", <<>>) ELSE <<>>

\* C11: generate_plans returns one QueryPlan per entry of 'query_plans', in
\* order, or the empty list; an entry without 'sql' or 'target_table'
\* discards the whole list, so no partial list is returned.
C11_AllOrNothing ==
  reply2.status # "none" =>
    /\ plans = <<>> \/ Len(plans) = Len(PlanEntries)
    /\ (\E i \in 1..Len(PlanEntries) : LacksRequiredKey(PlanEntries[i])) =>
         plans = <<>>
    /\ plans # <<>> =>
         \A i \in 1..Len(plans) :
           /\ plans[i].sql_query = PlanEntries[i].sql
           /\ plans[i].target_table = PlanEntries[i].target_table
           /\ plans[i].parameters = JsonGet(PlanEntries[i], "parameters", <<>>)
           /\ plans[i].intent = intent

\* a well-formed entry followed by a malformed one: nothing is returned
C11_Witness ==
  /\ pc = "stage3"
  /\ Len(PlanEntries) = 2
  /\ ~LacksRequiredKey(PlanEntries[1])
  /\ LacksRequiredKey(PlanEntries[2])
  /\ plans = <<>>

\* the stage a trace line belongs to
StageOf(tag) ==
  CASE tag \in {"stage1", "intent_extracted", "intent_failed"} -> 1
    [] tag \in {"stage2", "relevant_tables", "plan_generated", "planning_failed"} -> 2
    [] tag \in {"stage3", "executing", "executed", "execution_error"} -> 3
    [] OTHER -> 4
\* the line a stage appends when it is entered
IsStageStart(tag) == tag \in {"stage1", "stage2", "stage3", "stage4"}
\* the lines after which a stage has returned
IsStageEnd(tag) ==
  tag \in {"intent_extracted", "intent_failed", "plan_generated",
           "planning_failed", "executed", "execution_error", "synthesized",
           "synthesis_error"}
ExecutingLines == SelectSeq(logs, LAMBDA l : l.tag = "executing")

\* C12: within a request the stages run in the order understanding,
\* planning, execution, synthesis, provenance, each after the previous one
\* has returned, and the plans are executed one after another in list order
\* on one connection.
C12_StagesInOrder ==
  pc # "idle" =>
    /\ \A i, j \in 1..Len(logs) :
         i < j => /\ StageOf(logs[i].tag) <= StageOf(logs[j].tag)
                  /\ IsStageStart(logs[j].tag) =>
                       StageOf(logs[i].tag) < StageOf(logs[j].tag)
    /\ \A j \in 1..Len(logs) :
         IF j = 1 THEN logs[j].tag = "stage1"
         ELSE IsStageStart(logs[j].tag) => IsStageEnd(logs[j - 1].tag)
    /\ Len(ExecutingLines) = attempted
    /\ \A k \in 1..Len(ExecutingLines) :
         /\ ExecutingLines[k].n = k
         /\ ExecutingLines[k].text = Take80(plans[k].sql_query)
    /\ \A j \in 1..Len(logs) :
         logs[j].tag = "executed" =>
           /\ logs[j - 1].tag = "executing"
           /\ logs[j - 1].n = logs[j].n
    /\ \A k \in 1..Len(results) : results[k].query_plan = plans[k]
    /\ connsOpened <= 1
    /\ pc = "provenance" => (reply4.status # "none" /\ citations = EmptyCitations)
    /\ citations # EmptyCitations =>
         (reply4.status # "none" /\ StageOf(logs[Len(logs)].tag) = 4)
    /\ (pc = "stage2") = (logs # <<>> /\ StageOf(logs[Len(logs)].tag) = 1)

\* a request that went through all five stages with two plans
C12_Witness ==
  /\ pc = "done"
  /\ response.status = 200
  /\ Len(plans) = 2
  /\ plans[1].sql_query # plans[2].sql_query
  /\ attempted = 2
  /\ reply4.status = "ok"
  /\ citations # EmptyCitations
  /\ \E j \in 1..Len(logs) : logs[j].tag = "stage4"

\* C13: no retries: a stage that calls the LLM issues exactly one call when
\* it runs, also when the call fails, and no plan is handed to the store
\* more than once.
C13_NoRetries ==
  pc # "idle" =>
    /\ llmCalls.understanding = (IF reply1.status = "none" THEN 0 ELSE 1)
    /\ llmCalls.planning = (IF reply2.status = "none" THEN 0 ELSE 1)
    /\ llmCalls.synthesis = (IF reply4.status = "none" THEN 0 ELSE 1)
    /\ attempted <= Len(plans)
    /\ \A k \in 1..Len(plans) :
         Cardinality({j \in 1..Len(logs) :
                        logs[j].tag = "executing" /\ logs[j].n = k}) <= 1

\* the first and the last LLM call fail and a plan fails in between
C13_Witness ==
  /\ pc = "done"
  /\ LLMFailed(reply1)
  /\ LLMFailed(reply4)
  /\ execError # NoExc
  /\ llmCalls = [understanding |-> 1, planning |-> 1, synthesis |-> 1]
  /\ attempted = 2

C15_ConnectionClosed == ~connUnclosed

\* what a plan yields against the seeded table
SeededRows(plan) ==
  RunQuery(StoreRows, plan.sql_query,
           CorrectParameters(plan.sql_query, plan.parameters)).rows

C17_FailureLeavesNoTables ==
  (mdPc # "startup" /\ mdError # NoExc) =>
    /\ mdPc = "ready"
    /\ tables_metadata = <<>>

\* C18: no step of a query request changes the table metadata.
C18_MetadataUnchanged == [][tables_metadata' = tables_metadata]_vars

\* a later request has been answered and the metadata is the one built at
\* startup
C18_Witness ==
  /\ pc = "done"
  /\ response.status = 200
  /\ connUnclosed
  /\ connsOpened = 0
  /\ Len(tables_metadata) = 1
  /\ tables_metadata = InitializeMetadata(DeployedSources, SeededTables, TRUE).val

\* the source record of a result
SourceRecord(result) ==
  [table |-> result.source_metadata.table, url |-> result.source_metadata.url,
   file |-> result.source_metadata.file, rows_retrieved |-> result.row_count]

\* C19: 'queries' and 'data_lineage' have one entry per result, in result
\* order, numbered from 1, with the result's SQL, corrected parameters, row
\* count and intent type; 'sources' holds every result's source record
\* exactly once and nothing else.
C19_Citations ==
  citations # EmptyCitations =>
    /\ citations.keys = {"sources", "queries", "data_lineage"}
    /\ Len(citations.queries) = Len(results)
    /\ Len(citations.data_lineage) = Len(results)
    /\ \A i \in 1..Len(results) :
         /\ citations.queries[i].query_id = i
         /\ citations.queries[i].sql = results[i].query_plan.sql_query
         /\ citations.queries[i].parameters =
              CorrectParameters(results[i].query_plan.sql_query,
                                results[i].query_plan.parameters)
         /\ citations.queries[i].rows_returned = results[i].row_count
         /\ citations.data_lineage[i].result_id = i
         /\ citations.data_lineage[i].table = results[i].query_plan.target_table
         /\ citations.data_lineage[i].intent = intent.intent_type
         /\ Cardinality({j \in 1..Len(citations.sources) :
                           citations.sources[j] = SourceRecord(results[i])}) = 1
    /\ \A j \in 1..Len(citations.sources) :
         \E i \in 1..Len(results) : citations.sources[j] = SourceRecord(results[i])
    /\ \A a, b \in 1..Len(citations.sources) :
         a # b => citations.sources[a] # citations.sources[b]

\* two results with the same source record: one source, two queries
C19_Witness ==
  /\ pc = "respond"
  /\ Len(results) = 2
  /\ SourceRecord(results[1]) = SourceRecord(results[2])
  /\ Len(citations.sources) = 1
  /\ Len(citations.queries) = 2

\* C20: every ExecutionResult has row_count equal to the number of rows in
\* data, and row_count is not negative.
C20_RowCount ==
  /\ \A i \in 1..Len(results) :
       /\ results[i].row_count = Len(results[i].data)
       /\ results[i].row_count >= 0
  /\ \A i \in 1..Len(response.results) :
       /\ response.results[i].row_count = Len(response.results[i].data)
       /\ response.results[i].row_count >= 0

\* a result without rows and a result with several rows
C20_Witness ==
  /\ Len(results) = 2
  /\ results[1].row_count = 0
  /\ results[1].data = <<>>
  /\ results[2].row_count = 2
  /\ Len(results[2].data) = 2

\* C21: every QueryIntent that parse_query returns, whatever the LLM
\* answered, has an intent_type of the enumeration compare, analyze,
\* identify, correlate, policy, lookup
C21_IntentTypeEnumerated ==
  pc \in {"stage2", "stage3", "stage4", "provenance", "respond", "done"}
    /\ reply1 # NoReply1
    => intent.intent_type \in IntentTypes

\* a step of the agent pipeline has failed for the request
AgStepFailed == \E k \in 1..Len(agRuns) : agRuns[k].result.status # "success"

\* C22: in the agent-based API, when a pipeline step fails, POST /api/query
\* still answers HTTP 200 with a body whose status is 'error' and that
\* carries an error description
C22_StepFailureInBody ==
  agPc = "done" /\ AgStepFailed
    => /\ agHttp.status_code = 200
       /\ agHttp.body.status = "error"
       /\ "error" \in agHttp.body.has

\* the columns whose values the casing correction is meant for
CasedColumns == {"state", "district", "crop"}

\* C23: casing correction is scoped per placeholder: a string parameter
\* whose placeholder compares a column other than state/district/crop is
\* left unchanged, also when the statement filters on a state, district or
\* crop column with another placeholder
C23_OtherColumnsUnchanged ==
  cpPc = "done"
    => \A i \in 1..Len(cpParams) :
         (i <= Len(WhereColumns(cpSql)) /\ WhereColumns(cpSql)[i] \notin CasedColumns)
           => cpOut[i] = cpParams[i]

\* at least one execution result has one or more rows
RowsFound == \E i \in 1..Len(results) : results[i].row_count > 0
\* the request has passed stage 4
Stage4Done == pc = "respond" \/ (pc = "done" /\ response.status = 200)

\* C24: the data executor is invoked, and a connection opened, only if the
\* plan list is non-empty; answer synthesis (its LLM call) and citation
\* generation happen exactly when at least one execution result has rows;
\* in every other case no synthesis LLM call is made and citations are empty
C24_ShortCircuit ==
  /\ connsOpened > 0 => plans # <<>>
  /\ (\E k \in 1..Len(ownLines) : ownLines[k].tag = "stage3") => plans # <<>>
  /\ llmCalls.synthesis > 0 => RowsFound
  /\ citations # EmptyCitations => RowsFound
  /\ Stage4Done =>
       IF RowsFound
       THEN /\ llmCalls.synthesis = 1
            /\ citations = GenerateCitations(results)
            /\ citations # EmptyCitations
       ELSE /\ llmCalls.synthesis = 0
            /\ citations = EmptyCitations

C24_Witness ==
  /\ pc = "done"
  /\ response.status = 200
  /\ Len(results) = 2
  /\ results[1].row_count = 0
  /\ results[2].row_count > 0
  /\ connsOpened = 1
  /\ llmCalls.synthesis = 1
  /\ response.citations.sources # <<>>

\* the plans stage 2 handed over, computed again from the planner's reply
PlannedPlans == GeneratePlans(reply2, intent, RelevantTables(tables_metadata)).val

\* C25: for every ExecutionResult, source_metadata.table is the plan's
\* target_table, source_metadata.query the plan's SQL text unmodified,
\* source_metadata.parameters the casing-corrected parameters used for the
\* execution, url and file the configured values for that table or empty
\* strings when the table is not configured; the plan's own SQL and
\* parameter list are left unchanged
C25_SourceMetadata ==
  /\ Len(results) <= Len(plans)
  /\ pc \in {"stage3", "stage4", "provenance", "respond"} => plans = PlannedPlans
  /\ \A i \in 1..Len(results) :
       LET meta == results[i].source_metadata
           plan == plans[i]
       IN  /\ meta.table = plan.target_table
           /\ meta.query = plan.sql_query
           /\ meta.parameters = CorrectParameters(plan.sql_query, plan.parameters)
           /\ plan.target_table = "crop_yield"
                => /\ meta.url = "N/A (Uploaded from crop_yield.csv)"
                   /\ meta.file = "crop_yield.csv"
           /\ plan.target_table # "crop_yield"
                => meta.url = "" /\ meta.file = ""
           /\ results[i].query_plan = plan
           /\ plan = PlannedPlans[i]

C25_Witness ==
  /\ pc = "respond"
  /\ Len(results) = 2
  /\ plans[1].parameters = <<StrVal(TxtAssamLower)>>
  /\ results[1].source_metadata.parameters = <<StrVal(TxtAssam)>>
  /\ results[1].source_metadata.url # ""
  /\ plans[2].target_table = "rainfall"
  /\ results[2].source_metadata.url = ""

\* C26: query execution is read-only: after any sequence of requests,
\* whatever SQL text the planner emitted, the store holds what it held
\* before the first request; a statement that would modify the store fails
\* and is handled as a query execution failure
C26_ReadOnly ==
  /\ store = StoreRows
  /\ (AfterStage3 /\ connectOk) =>
       \A k \in 1..Len(plans) :
         (plans[k].sql_query = SqlDelete /\ attempted >= k) =>
           /\ attempted = k
           /\ execError = DatabaseError
           /\ Len(results) < k
           /\ response.status # 500

C26_Witness ==
  /\ pc = "done"
  /\ response.status = 200
  /\ Len(plans) = 2
  /\ plans[2].sql_query = SqlDelete
  /\ attempted = 2
  /\ Len(results) = 1
  /\ execError = DatabaseError
  /\ store = StoreRows

\* C27: with an empty metadata set every context builder tolerates it:
\* parse_query and generate_plans build their prompts and complete without
\* raising, and the request ends in a normal response
C27_EmptyMetadataTolerated ==
  /\ tables_metadata = <<>>
  /\ pc \in {"stage2", "stage3", "stage4", "provenance", "respond"}
       => llmCalls.understanding = 1
  /\ pc \in {"stage3", "stage4", "provenance", "respond"}
       => llmCalls.planning = 1
  /\ (pc = "done" /\ question # <<>>) =>
       /\ response.status = 200
       /\ llmCalls.understanding = 1
       /\ llmCalls.planning = 1
       /\ \E k \in 1..Len(response.logs) :
            /\ response.logs[k].tag = "relevant_tables"
            /\ response.logs[k].tables = <<>>

C27_Witness ==
  /\ tables_metadata = <<>>
  /\ pc = "done"
  /\ question # <<>>
  /\ response.status = 200
  /\ plans # <<>>
  /\ response.citations.sources # <<>>

\* C29: a question that is empty or only whitespace is rejected with HTTP
\* status 400 and no pipeline stage (no LLM call, no query execution) is
\* run for it
C29_EmptyQuestionIs400 ==
  (pc = "done" /\ question = <<>>) =>
    /\ response.status = 400
    /\ llmCalls = NoCalls
    /\ connsOpened = 0
    /\ attempted = 0

\* the result index a chart specification asks for (0 when it names none)
ChartIndex == IF "result_index" \in chViz.has THEN chViz.result_index ELSE 0

\* C28: a chart is rendered only if its result_index denotes an existing
\* result (0 <= index < number of results) with non-empty data, its type is
\* bar, line or scatter, and its x and y columns exist in that result; any
\* other specification ends in a not-renderable outcome without a lookup
\* failure leaving the rendering step
C28_ChartValidated ==
  chPc = "done" =>
    /\ chOut.raised = NoExc
    /\ chOut.outcome = "rendered" =>
         /\ ~chViz.is_null
         /\ ChartIndex >= 0
         /\ ChartIndex < Len(chResults)
         /\ chResults[ChartIndex + 1].rows > 0
         /\ chViz.type \in {"bar", "line", "scatter"}
         /\ chViz.x \in chResults[ChartIndex + 1].columns
         /\ chViz.y \in chResults[ChartIndex + 1].columns

\* the error label of each step
ErrorLabels ==
  <<"Failed to understand query", "Failed to retrieve data",
    "Failed to analyze data", "Failed to generate visualizations",
    "Failed to synthesize response">>
FailedRuns == {k \in 1..Len(agRuns) : agRuns[k].result.status # "success"}

\* C30: AgentOrchestrator.process_query runs its steps in the order query
\* understanding, data retrieval, analysis, visualization, synthesis; a step
\* is started only if every earlier step returned status 'success'; the
\* call never raises; it returns status 'success' only if all five steps
\* succeeded, otherwise status 'error' with the error label of the first
\* failing step
C30_OrchestratorSteps ==
  /\ Len(agRuns) <= 5
  /\ \A k \in 1..Len(agRuns) :
       /\ agRuns[k].step = StepNames[k]
       /\ \A j \in 1..(k - 1) : agRuns[j].result.status = "success"
  /\ agPc \in {"returned", "done"} =>
       /\ "status" \in agResult.has
       /\ agResult.status \in {"success", "error"}
       /\ agResult.status = "success" <=> (Len(agRuns) = 5 /\ FailedRuns = {})
       /\ agResult.status = "error" =>
            /\ FailedRuns = {Len(agRuns)}
            /\ agResult.error = ErrorLabels[Len(agRuns)]
            /\ agResult.details = agRuns[Len(agRuns)].result.error

C30_Witness ==
  /\ agPc = "returned"
  /\ Len(agRuns) = 4
  /\ agRuns[4].result.status = "error"
  /\ agResult.status = "error"
  /\ agResult.error = "Failed to generate visualizations"
  /\ agResult.processing_steps[5] = "not_started"

====
